---- MODULE Spec2Model ----
(***************************************************************************)
(* Flight-lesson rescheduler: the in-memory store, the simulated clock,     *)
(* the weather impact resolver (safetyCheck), the status transition engine  *)
(* (updateFlightStatuses), board maintenance (cleanupAndGenerateFlights),   *)
(* the manual reschedule (updateFlightSchedule) and the simulation reset    *)
(* (cleanupSimulation).                                                     *)
(*                                                                          *)
(* Time is counted in minutes since Monday 00:00 of the seeded week.  The   *)
(* program keeps times as ISO-8601 strings produced by Date.toISOString()   *)
(* and compares them with < and >; for strings of that one layout the       *)
(* comparison is the comparison of the instants, which is what the          *)
(* integers here compare.                                                   *)
(***************************************************************************)
EXTENDS Integers, Sequences, FiniteSets, TLC

(***************************************************************************)
(* Program constants                                                        *)
(***************************************************************************)
HOUR == 60
DAY == 24 * HOUR
\* setInterval body: advanceTimeByMinutes(10)
TickMinutes == 10
\* removeOldCompletedFlights: 2 * 60 * 60 * 1000 ms
RetentionMinutes == 120
\* seed and board maintenance fill the hours 8 .. 16 of a day
FirstHour == 8
LastHour == 17
\* cleanupAndGenerateFlights: Math.min(removed * 2, 10)
GeneratePerRemoved == 2
GenerateCap == 10
\* generateNewScheduledFlights: maxDaysAhead, maxAttempts = count * 100
MaxDaysAhead == 14
AttemptsPerFlight == 100

\* the four routes as the seed and the weather simulation spell them
RoutesAsSeeded == <<"KAUS-KGTU", "KAUS-KHYI", "KAUS-KEDC", "KAUS-KATT">>

\* weather.ts AVAILABLE_ROUTES, in the order of the source
AVAILABLE_ROUTES == <<"KAUS-KGTU", "KAUS-KHYI", "KAUS-KEDC", "KAUS-KATT">>
\* the route literals of generateNewScheduledFlights: their bytes differ from
\* those of AVAILABLE_ROUTES, so they are other strings
GENERATED_ROUTES == <<"KAUS?KGTU", "KAUS?KHYI", "KAUS?KEDC", "KAUS?KATT">>

(***************************************************************************)
(* Bounds of the model                                                      *)
(***************************************************************************)
\* the clock stops advancing at MaxNow (Monday 09:00)
MaxNow == 540
\* weather events held at once
MaxWeather == 2
\* flights a seed creates (the program: 40), one per hour from Monday 08:00
SeedFlights == 2
\* routes the seed draws from (the program: 4)
SeedRoutes == 2
\* the draws of the seed and of board maintenance (the program: 5 instructors,
\* 5 planes, 20 students)
Instructors == {1, 2}
Planes == {1}
Students == {1}
\* minutes between the clock and the first seeded flight when the model starts
\* watching: the seed, then the idle ticks up to that moment
SeedLead == TickMinutes
\* POST /simulate-weather: duration_hours, and start_time as an offset from the
\* clock (the dashboard sends the clock, or the clock plus one hour)
WeatherDurations == {1, 3}
WeatherOffsets == {0, 60}
\* POST /flights/:id/reschedule: the start_time values requested
RequestStarts == {480, 600}
\* the selections of routes simulateWeather draws, as indexes of AVAILABLE_ROUTES
\* in the order drawn
SelectionsDrawn == {<<3, 1>>, <<2, 3, 4>>}
\* the minutes of the hour at which POST /simulate-weather arrives
WeatherMinutes == {0}
\* the preferred_time values the seed draws for its students
PREFERRED_TIMES == {"morning", "noon", "afternoon"}
\* the draws of preferred_time followed where no operation reads it
PreferencesDrawn == {"morning"}

VARIABLES
  now,            \* store.simulationTime
  flights,        \* store.flights, in array order
  students,       \* store.students: preferred_time of each student id
  weatherEvents,  \* store.weatherEvents, in array order
  nextId,         \* store.nextId (flights, weatherEvents)
  alertsAdded,    \* the alerts the last operation appended to store.alerts
  op,             \* the last operation
  ret             \* what the last operation returned

vars == <<now, flights, students, weatherEvents, nextId, alertsAdded, op, ret>>

(***************************************************************************)
(* Helpers on sequences                                                     *)
(***************************************************************************)
Range(s) == {s[i] : i \in 1..Len(s)}

Min(a, b) == IF a < b THEN a ELSE b

(***************************************************************************)
(* The store (InMemoryStore)                                                *)
(***************************************************************************)
\* addFlight: push a record with the next flight id
AddFlight(fs, id, student, instructor, plane, start, end, route, status) ==
  Append(fs, [id |-> id, student_id |-> student, instructor_id |-> instructor,
              plane_id |-> plane, start_time |-> start, end_time |-> end,
              route |-> route, status |-> status])

\* getFlight: the first record with that id, or none
HasFlight(fs, id) == \E i \in 1..Len(fs) : fs[i].id = id

FlightIndex(fs, id) == CHOOSE i \in 1..Len(fs) : fs[i].id = id /\ \A j \in 1..(i-1) : fs[j].id # id

GetFlight(fs, id) == fs[FlightIndex(fs, id)]

\* updateFlight(id, {status}): replaces the record at the index found; false when none
SetStatus(fs, id, status) ==
  IF ~HasFlight(fs, id) THEN fs
  ELSE [fs EXCEPT ![FlightIndex(fs, id)].status = status]

\* the update that leaves the instructor and the plane as they were
SetTimesOnly(fs, id, start, end, instructor, plane, status) ==
  IF ~HasFlight(fs, id) THEN fs
  ELSE [fs EXCEPT ![FlightIndex(fs, id)] =
          [@ EXCEPT !.start_time = start, !.end_time = end, !.status = status]]

\* updateFlight(id, {start_time, end_time, instructor_id, plane_id, status})
SetSchedule(fs, id, start, end, instructor, plane, status) ==
  IF ~HasFlight(fs, id) THEN fs
  ELSE [fs EXCEPT ![FlightIndex(fs, id)] =
          [@ EXCEPT !.start_time = start, !.end_time = end,
                    !.instructor_id = instructor, !.plane_id = plane,
                    !.status = status]]

(***************************************************************************)
(* Route lists.  affected_routes is the string selectedRoutes.join(", "):   *)
(* its comma-separated fields are the route names, each but the first with *)
(* a leading blank.  A field is modelled as <<leading blanks, name>>.       *)
(***************************************************************************)
JoinRoutes(selected) ==
  [i \in 1..Len(selected) |-> <<IF i = 1 THEN 0 ELSE 1, selected[i]>>]

\* .trim(): drops the blanks around the name
Trim(field) == <<0, field[2]>>

\* .split(",").map(r => r.trim()).filter(r => r.length > 0)
ParseRoutes(affected_routes) ==
  SelectSeq([i \in 1..Len(affected_routes) |-> Trim(affected_routes[i])],
            LAMBDA fld : fld[2] # "")

\* affectedRoutes.includes(route): route is the bare name, no blanks
Includes(parsed, route) == \E i \in 1..Len(parsed) : parsed[i] = <<0, route>>

(***************************************************************************)
(* Half-open overlap, as every component writes it:                         *)
(*   a.start_time < b.end_time && a.end_time > b.start_time                 *)
(***************************************************************************)
Overlaps(s1, e1, s2, e2) == s1 < e2 /\ e1 > s2

(***************************************************************************)
(* Availability checker (calendar.ts)                                       *)
(***************************************************************************)
IsInstructorAvailable(fs, instructorId, startTime, endTime, excludeFlightId) ==
  LET conflicts == SelectSeq(fs, LAMBDA f :
                     /\ f.instructor_id = instructorId
                     /\ f.status # "cancelled"
                     /\ f.status # "affected"
                     /\ f.id # excludeFlightId
                     /\ f.start_time < endTime
                     /\ f.end_time > startTime)
  IN Len(conflicts) = 0

\* a plane check that lets every request through
PlaneNeverChecked(fs, planeId, startTime, endTime, excludeFlightId) == TRUE

IsPlaneAvailable(fs, planeId, startTime, endTime, excludeFlightId) ==
  LET conflicts == SelectSeq(fs, LAMBDA f :
                     /\ f.plane_id = planeId
                     /\ f.status # "cancelled"
                     /\ f.status # "affected"
                     /\ f.id # excludeFlightId
                     /\ f.start_time < endTime
                     /\ f.end_time > startTime)
  IN Len(conflicts) = 0

\* the weather events that have not ended: w.end_time > currentTime
ActiveWeather(ws, t) == SelectSeq(ws, LAMBDA w : w.end_time > t)

\* the weather check that finds every slot clear
IsSlotNeverAffected(ws, t, route, startTime, endTime) == FALSE

\* isSlotAffectedByWeather: an active event lists the route and overlaps the slot
IsSlotAffectedByWeather(ws, t, route, startTime, endTime) ==
  \E i \in 1..Len(ActiveWeather(ws, t)) :
    LET w == ActiveWeather(ws, t)[i] IN
      /\ Includes(ParseRoutes(w.affected_routes), route)
      /\ startTime < w.end_time /\ endTime > w.start_time

(***************************************************************************)
(* Alerts.  An alert is [kind, n, ref]: the message's template, the count   *)
(* it states and the flight or weather event it names (0 when none).        *)
(***************************************************************************)
Alert(kind, n, ref) == [kind |-> kind, n |-> n, ref |-> ref]

(***************************************************************************)
(* Weather impact resolver (safetyCheck)                                    *)
(***************************************************************************)
\* .sort((a, b) => a.start_time.localeCompare(b.start_time)): a stable sort
RECURSIVE InsertByStart(_, _)
InsertByStart(sorted, w) ==
  IF sorted = <<>> THEN <<w>>
  ELSE IF sorted[Len(sorted)].start_time <= w.start_time THEN Append(sorted, w)
  ELSE Append(InsertByStart(SubSeq(sorted, 1, Len(sorted) - 1), w), sorted[Len(sorted)])

RECURSIVE SortByStart(_)
SortByStart(ws) ==
  IF ws = <<>> THEN <<>>
  ELSE InsertByStart(SortByStart(SubSeq(ws, 1, Len(ws) - 1)), ws[Len(ws)])

\* the filter without the test of the status
MatchesEventAnyStatus(f, w) ==
  /\ Includes(ParseRoutes(w.affected_routes), f.route)
  /\ f.start_time < w.end_time
  /\ f.end_time > w.start_time

\* the filter with the overlap test closed at both ends
MatchesEventClosed(f, w) ==
  /\ Includes(ParseRoutes(w.affected_routes), f.route)
  /\ (f.status = "scheduled" \/ f.status = "in_progress")
  /\ f.start_time <= w.end_time
  /\ f.end_time >= w.start_time

\* the filter of safetyCheck: route listed, status scheduled or in_progress,
\* interval overlapping the event's window
MatchesEvent(f, w) ==
  /\ Includes(ParseRoutes(w.affected_routes), f.route)
  /\ (f.status = "scheduled" \/ f.status = "in_progress")
  /\ f.start_time < w.end_time
  /\ f.end_time > w.start_time

\* the loop over the matched flights that updates none of them
MarkNone(fs, hit) == fs

\* store.updateFlight(flight.id, {status: 'affected'}) for each flight of a list
RECURSIVE MarkAffected(_, _)
MarkAffected(fs, hit) ==
  IF hit = <<>> THEN fs
  ELSE MarkAffected(SetStatus(fs, hit[1].id, "affected"), Tail(hit))

\* the loop over the active events; allFlights is the copy read before the loop
RECURSIVE SafetyLoop(_, _, _, _, _)
SafetyLoop(events, allFlights, fs, alerts, total) ==
  IF events = <<>> THEN [flights |-> fs, alerts |-> alerts, total |-> total]
  ELSE
    LET w == events[1]
        affectedRoutes == ParseRoutes(w.affected_routes)
        affectedFlights == SelectSeq(allFlights, LAMBDA f : MatchesEvent(f, w))
    IN IF Len(affectedRoutes) = 0
         THEN SafetyLoop(Tail(events), allFlights, fs, alerts, total)
       ELSE IF Len(affectedFlights) > 0
         THEN SafetyLoop(Tail(events), allFlights, MarkAffected(fs, affectedFlights),
                         Append(alerts, Alert("affected", Len(affectedFlights), w.id)),
                         total + Len(affectedFlights))
       ELSE SafetyLoop(Tail(events), allFlights, fs, alerts, total)

\* safetyCheck(): [flights, alerts, cancelled]
SafetyCheck(fs, ws, t) ==
  LET events == SortByStart(ActiveWeather(ws, t)) IN
    IF Len(events) = 0
      THEN [flights |-> fs, alerts |-> <<Alert("no_active_weather", 0, 0)>>,
            cancelled |-> 0]
    ELSE
      LET r == SafetyLoop(events, fs, fs, <<>>, 0) IN
        [flights |-> r.flights,
         alerts |-> IF r.total = 0 THEN Append(r.alerts, Alert("none_affected", 0, 0))
                    ELSE r.alerts,
         cancelled |-> r.total]

(***************************************************************************)
(* Status transition engine (updateFlightStatuses)                          *)
(***************************************************************************)
\* the chain taking one transition at a time: a scheduled flight that has
\* started goes to in_progress even when its hour is over
EngineStatusStepwise(f, t) ==
  IF f.status = "scheduled" /\ f.start_time <= t THEN "in_progress"
  ELSE IF f.status = "in_progress" /\ f.end_time <= t THEN "completed"
  ELSE f.status

\* the chain with the boundaries exclusive
EngineStatusExclusive(f, t) ==
  IF f.status = "scheduled" /\ f.end_time < t THEN "completed"
  ELSE IF f.status = "scheduled" /\ f.start_time < t /\ f.end_time > t THEN "in_progress"
  ELSE IF f.status = "in_progress" /\ f.end_time < t THEN "completed"
  ELSE f.status

\* the chain without its last branch: a flight in progress is never completed
EngineStatusOnceStarted(f, t) ==
  IF f.status = "scheduled" /\ f.end_time <= t THEN "completed"
  ELSE IF f.status = "scheduled" /\ f.start_time <= t /\ f.end_time > t THEN "in_progress"
  ELSE f.status

\* the if / else-if chain of the loop over the flights
EngineStatus(f, t) ==
  IF f.status = "scheduled" /\ f.end_time <= t THEN "completed"
  ELSE IF f.status = "scheduled" /\ f.start_time <= t /\ f.end_time > t THEN "in_progress"
  ELSE IF f.status = "in_progress" /\ f.end_time <= t THEN "completed"
  ELSE f.status

\* the first active event that cancels an affected flight, 0 when none
RECURSIVE FirstCancelling(_, _, _, _)
FirstCancelling(f, active, t, i) ==
  IF i > Len(active) THEN 0
  ELSE IF ~Includes(ParseRoutes(active[i].affected_routes), f.route)
    THEN FirstCancelling(f, active, t, i + 1)
  ELSE IF active[i].start_time > t
    THEN FirstCancelling(f, active, t, i + 1)
  ELSE IF f.start_time < active[i].end_time /\ f.end_time > active[i].start_time
    THEN i
  ELSE FirstCancelling(f, active, t, i + 1)

RECURSIVE CancelLoop(_, _, _, _, _)
CancelLoop(affectedFlights, active, t, fs, alerts) ==
  IF affectedFlights = <<>> THEN [flights |-> fs, alerts |-> alerts]
  ELSE
    LET f == affectedFlights[1]
        i == FirstCancelling(f, active, t, 1)
    IN IF i = 0 THEN CancelLoop(Tail(affectedFlights), active, t, fs, alerts)
       ELSE CancelLoop(Tail(affectedFlights), active, t,
                       SetStatus(fs, f.id, "cancelled"),
                       Append(alerts, Alert("cancelled", 0, f.id)))

\* cancelAffectedFlightsPastStormStart(): [flights, alerts]
CancelAffectedFlightsPastStormStart(fs, ws, t) ==
  CancelLoop(SelectSeq(fs, LAMBDA f : f.status = "affected"),
             ActiveWeather(ws, t), t, fs, <<>>)

\* updateFlightStatuses(): [flights, alerts]
UpdateFlightStatuses(fs, ws, t) ==
  LET moved == [i \in 1..Len(fs) |-> [fs[i] EXCEPT !.status = EngineStatus(fs[i], t)]]
  IN CancelAffectedFlightsPastStormStart(moved, ws, t)

(***************************************************************************)
(* Board maintenance (cleanupAndGenerateFlights)                            *)
(***************************************************************************)
\* removeOldCompletedFlights(): completed and end_time <= currentTime - 2 h
IsOldCompleted(f, t) == f.status = "completed" /\ f.end_time <= t - RetentionMinutes

\* store.deleteFlights(condition) keeps the records the condition rejects
RemoveOldCompletedFlights(fs, t) == SelectSeq(fs, LAMBDA f : ~IsOldCompleted(f, t))

\* a conflict test that finds every slot free
HasConflictNever(allFlights, startTime, endTime) == FALSE

\* the conflict test of generateNewScheduledFlights: any flight that is neither
\* cancelled nor affected and overlaps the slot, whatever its instructor and plane
HasConflict(allFlights, startTime, endTime) ==
  \E i \in 1..Len(allFlights) :
    /\ allFlights[i].status # "cancelled"
    /\ allFlights[i].status # "affected"
    /\ allFlights[i].start_time < endTime
    /\ allFlights[i].end_time > startTime

\* the hour and day after a slot: hour++, and past 16:00 the next day at 8
NextSlotHour(hour) == IF hour + 1 >= LastHour THEN FirstHour ELSE hour + 1

NextSlotDay(hour, dayOffset) == IF hour + 1 >= LastHour THEN dayOffset + 1 ELSE dayOffset

\* a loop condition without the limit on the attempts
GenerateLoopUncapped(count, i, attempts) == i < count

\* the condition of the for loop: i < count && attempts < maxAttempts
GenerateLoopContinues(count, i, attempts) ==
  i < count /\ attempts < count * AttemptsPerFlight

\* one pass of the for loop of generateNewScheduledFlights on the loop's
\* variables st: i counts the flights placed, attempts the iterations; picks[k]
\* is the k-th draw of student, instructor, plane and route; allFlights is the
\* copy read before the loop; done is set when the loop ends
GenerateIteration(count, picks, base, allFlights, st) ==
  IF ~GenerateLoopContinues(count, st.i, st.attempts) THEN [st EXCEPT !.done = TRUE]
  ELSE IF st.dayOffset > MaxDaysAhead
    THEN [st EXCEPT !.attempts = @ + 1, !.done = TRUE]
  ELSE
    LET startTime == base + st.dayOffset * DAY + (st.hour - FirstHour) * HOUR
        endTime == startTime + HOUR
    IN IF HasConflict(allFlights, startTime, endTime)
         THEN [st EXCEPT !.attempts = @ + 1,
                         !.hour = NextSlotHour(st.hour),
                         !.dayOffset = NextSlotDay(st.hour, st.dayOffset)]
       ELSE [st EXCEPT !.i = @ + 1,
                       !.attempts = @ + 1,
                       !.hour = NextSlotHour(st.hour),
                       !.dayOffset = NextSlotDay(st.hour, st.dayOffset),
                       !.fs = AddFlight(st.fs, st.id, picks[st.i + 1].student,
                                        picks[st.i + 1].instructor, picks[st.i + 1].plane,
                                        startTime, endTime, picks[st.i + 1].route,
                                        "scheduled"),
                       !.id = @ + 1]

\* the passes of the loop over the slots of one day
RECURSIVE GenerateDay(_, _, _, _, _)
GenerateDay(count, picks, base, allFlights, st) ==
  LET next == GenerateIteration(count, picks, base, allFlights, st)
  IN IF next.done \/ next.dayOffset # st.dayOffset THEN next
     ELSE GenerateDay(count, picks, base, allFlights, next)

\* the for loop of generateNewScheduledFlights, day after day.  The result
\* carries the attempts made and the dayOffset reached when the loop ends.
RECURSIVE GenerateLoop(_, _, _, _, _, _, _, _, _, _)
GenerateLoop(count, picks, base, allFlights, i, attempts, hour, dayOffset, fs, id) ==
  LET next == GenerateDay(count, picks, base, allFlights,
                          [i |-> i, attempts |-> attempts, hour |-> hour,
                           dayOffset |-> dayOffset, fs |-> fs, id |-> id, done |-> FALSE])
  IN IF next.done
       THEN [flights |-> next.fs, generated |-> next.i, attempts |-> next.attempts,
             dayOffset |-> next.dayOffset]
     ELSE GenerateLoop(count, picks, base, allFlights, next.i, next.attempts, next.hour,
                       next.dayOffset, next.fs, next.id)

\* a generator whose first slot is 08:00 of the clock's own day
GenerateFromToday(count, picks, fs, t, id) ==
  IF count <= 0
    THEN [flights |-> fs, generated |-> 0, attempts |-> 0, dayOffset |-> 0]
  ELSE GenerateLoop(count, picks, (t \div DAY) * DAY + FirstHour * HOUR,
                    fs, 0, 0, FirstHour, 0, fs, id)

\* generateNewScheduledFlights(count): [flights, generated]; the first slot is
\* 08:00 of the day after the clock's
GenerateNewScheduledFlights(count, picks, fs, t, id) ==
  IF count <= 0
    THEN [flights |-> fs, generated |-> 0, attempts |-> 0, dayOffset |-> 0]
  ELSE GenerateLoop(count, picks, ((t \div DAY) + 1) * DAY + FirstHour * HOUR,
                    fs, 0, 0, FirstHour, 0, fs, id)

\* cleanupAndGenerateFlights(): [flights, removed, generated]
CleanupAndGenerateFlights(picks, fs, t, id) ==
  LET kept == RemoveOldCompletedFlights(fs, t)
      removed == Len(fs) - Len(kept)
      g == IF removed > 0
             THEN GenerateNewScheduledFlights(Min(removed * GeneratePerRemoved, GenerateCap),
                                              picks, kept, t, id)
           ELSE [flights |-> kept, generated |-> 0]
  IN [flights |-> g.flights, removed |-> removed, generated |-> g.generated]

\* the draws board maintenance may make for one Sweep
GeneratedRouteSet == Range(GENERATED_ROUTES)

Draws == [student : Students, instructor : Instructors, plane : Planes,
          route : GeneratedRouteSet]

\* one sequence of draws for each flight a Sweep may generate
SweepDraws(fs, t) ==
  LET removed == Len(fs) - Len(RemoveOldCompletedFlights(fs, t))
  IN [1..Min(removed * GeneratePerRemoved, GenerateCap) -> Draws]

(***************************************************************************)
(* Manual reschedule (updateFlightSchedule): [ok, message, flights, alerts] *)
(***************************************************************************)
UpdateFlightSchedule(fs, ws, t, flightId, startTime, endTime, instructorId, planeId) ==
  LET rejected(msg) == [ok |-> FALSE, message |-> msg, flights |-> fs, alerts |-> <<>>] IN
  IF ~HasFlight(fs, flightId) THEN rejected("Flight not found")
  ELSE
    LET flight == GetFlight(fs, flightId) IN
    IF flight.status # "affected" THEN rejected("Flight is not in 'affected' status")
    ELSE IF ~IsInstructorAvailable(fs, instructorId, startTime, endTime, flightId)
      THEN rejected("Instructor is not available at this time")
    ELSE IF ~IsPlaneAvailable(fs, planeId, startTime, endTime, flightId)
      THEN rejected("Plane is not available at this time")
    ELSE IF IsSlotAffectedByWeather(ws, t, flight.route, startTime, endTime)
      THEN rejected("This time slot is affected by active weather events")
    ELSE
      LET changed == \/ flight.start_time # startTime
                     \/ flight.instructor_id # instructorId
                     \/ flight.plane_id # planeId
      IN [ok |-> TRUE, message |-> "",
          flights |-> SetSchedule(fs, flightId, startTime, endTime, instructorId,
                                  planeId, "scheduled"),
          alerts |-> IF changed THEN <<Alert("rescheduled", 0, flightId)>> ELSE <<>>]

(***************************************************************************)
(* Simulation reset (cleanupSimulation): every flight back to scheduled     *)
(***************************************************************************)
\* a reset that restores the affected flights only
ResetAffectedOnly(fs) ==
  [i \in 1..Len(fs) |->
     IF fs[i].status = "affected" THEN [fs[i] EXCEPT !.status = "scheduled"] ELSE fs[i]]

ResetFlights(fs) ==
  [i \in 1..Len(fs) |->
     IF fs[i].status # "scheduled" THEN [fs[i] EXCEPT !.status = "scheduled"] ELSE fs[i]]

(***************************************************************************)
(* Seed (seedDatabase)                                                      *)
(***************************************************************************)
\* the routes array of the seed names KAUS-KGTU twice: four distinct routes, of
\* which the model draws the first SeedRoutes
SeedRouteSet == {AVAILABLE_ROUTES[i] : i \in 1..SeedRoutes}

SeedDraws == [instructor : Instructors, plane : Planes, route : SeedRouteSet]

\* the draws of one seed, one per flight.  Instructors are interchangeable and so
\* are routes, so the first flight's draw is kept to the first of each
SeedPicks ==
  {picks \in [1..SeedFlights -> SeedDraws] :
     /\ picks[1].instructor = 1
     /\ picks[1].route = AVAILABLE_ROUTES[1]}

NumStudents == 20
SlotsPerDay == LastHour - FirstHour

\* the k-th seeded flight (k from 0): Monday 08:00 plus k hours, nine a day
SeedStart(k) == (k \div SlotsPerDay) * DAY + (FirstHour + (k % SlotsPerDay)) * HOUR

RECURSIVE SeedFlightsFrom(_, _, _)
SeedFlightsFrom(k, picks, fs) ==
  IF k >= SeedFlights THEN fs
  ELSE SeedFlightsFrom(k + 1, picks,
         AddFlight(fs, k + 1, ((k \div 2) % NumStudents) + 1, picks[k + 1].instructor,
                   picks[k + 1].plane, SeedStart(k), SeedStart(k) + HOUR,
                   picks[k + 1].route, "scheduled"))

Returned(ok, message, n) == [ok |-> ok, message |-> message, n |-> n]

\* The store after POST /seed.  clearAll puts the clock back to the wall clock
\* and the seeded flights start the next Monday at 08:00, eight hours later or
\* more; until then a tick moves nothing but the clock.  The seed and these
\* idle ticks are one step here, ending SeedLead minutes before the first flight.
SeededStore(picks) ==
  [now |-> SeedStart(0) - SeedLead,
   flights |-> SeedFlightsFrom(0, picks, <<>>),
   weatherEvents |-> <<>>,
   nextId |-> [flights |-> SeedFlights + 1, weatherEvents |-> 1],
   alerts |-> <<Alert("seeded", SeedFlights, 0)>>]

SeedStudents(preferences) == [Students -> preferences]

InitFrom(preferences) ==
  \E picks \in SeedPicks, studs \in SeedStudents(preferences) :
    /\ students = studs
    /\ now = SeededStore(picks).now
    /\ flights = SeededStore(picks).flights
    /\ weatherEvents = SeededStore(picks).weatherEvents
    /\ nextId = SeededStore(picks).nextId
    /\ alertsAdded = SeededStore(picks).alerts
    /\ op = "seed"
    /\ ret = Returned(TRUE, "", SeedFlights)

Init == InitFrom(PreferencesDrawn)

(***************************************************************************)
(* Operations                                                               *)
(***************************************************************************)
\* POST /seed
Seed ==
  \E picks \in SeedPicks, studs \in SeedStudents(PreferencesDrawn) :
    /\ students' = studs
    /\ now' = SeededStore(picks).now
    /\ flights' = SeededStore(picks).flights
    /\ weatherEvents' = SeededStore(picks).weatherEvents
    /\ nextId' = SeededStore(picks).nextId
    /\ alertsAdded' = SeededStore(picks).alerts
    /\ op' = "seed"
    /\ ret' = Returned(TRUE, "", SeedFlights)

\* the selections of simulateWeather: the first 2 or 3 routes of a shuffle of
\* AVAILABLE_ROUTES, as sequences of distinct indexes
IsSelection(sel) ==
  /\ Len(sel) \in {2, 3}
  /\ \A i \in 1..Len(sel) : sel[i] \in 1..Len(AVAILABLE_ROUTES)
  /\ \A i, j \in 1..Len(sel) : i # j => sel[i] # sel[j]

RouteSelections == {sel \in SelectionsDrawn : IsSelection(sel)}

PickRoutes(sel) == [i \in 1..Len(sel) |-> AVAILABLE_ROUTES[sel[i]]]

\* POST /simulate-weather: simulateWeather(condition, durationHours, startTimeParam)
\* adds the event and its alert, then runs safetyCheck
SimulateWeather ==
  /\ Len(weatherEvents) < MaxWeather
  /\ (now % HOUR) \in WeatherMinutes
  /\ \E sel \in RouteSelections, durationHours \in WeatherDurations, offset \in WeatherOffsets :
       LET startTime == now + offset
           endTime == startTime + durationHours * HOUR
           w == [id |-> nextId.weatherEvents, start_time |-> startTime,
                 end_time |-> endTime,
                 affected_routes |-> JoinRoutes(PickRoutes(sel)),
                 condition |-> "storm"]
           ws == Append(weatherEvents, w)
           r == SafetyCheck(flights, ws, now)
       IN /\ weatherEvents' = ws
          /\ nextId' = [nextId EXCEPT !.weatherEvents = @ + 1]
          /\ flights' = r.flights
          /\ alertsAdded' = <<Alert("simulated", durationHours, w.id)>> \o r.alerts
          /\ op' = "simulateWeather"
          /\ ret' = Returned(TRUE, "", r.cancelled)
          /\ UNCHANGED <<now, students>>

\* POST /safety-check
SafetyCheckOp ==
  LET r == SafetyCheck(flights, weatherEvents, now) IN
    /\ flights' = r.flights
    /\ alertsAdded' = r.alerts
    /\ op' = "safetyCheck"
    /\ ret' = Returned(TRUE, "", r.cancelled)
    /\ UNCHANGED <<now, students, weatherEvents, nextId>>

\* POST /flights/:id/reschedule
Reschedule ==
  \E flightId \in 1..nextId.flights, startTime \in RequestStarts,
     instructorId \in Instructors, planeId \in Planes :
    LET r == UpdateFlightSchedule(flights, weatherEvents, now, flightId, startTime,
                                  startTime + HOUR, instructorId, planeId)
    IN /\ flights' = r.flights
       /\ alertsAdded' = r.alerts
       /\ op' = "reschedule"
       /\ ret' = Returned(r.ok, r.message, 0)
       /\ UNCHANGED <<now, students, weatherEvents, nextId>>

\* POST /cleanup
Cleanup ==
  /\ weatherEvents' = <<>>
  /\ nextId' = [nextId EXCEPT !.weatherEvents = 1]
  /\ flights' = ResetFlights(flights)
  /\ alertsAdded' = <<Alert("reset", 0, 0)>>
  /\ op' = "cleanup"
  /\ ret' = Returned(TRUE, "Simulation reset", 0)
  /\ UNCHANGED <<now, students>>

\* a fast-forward that stays where it is when the clock is on the hour
HourNotBefore(t) == ((t + HOUR - 1) \div HOUR) * HOUR

\* fastForwardTime(): the beginning of the next hour
NextHour(t) == ((t \div HOUR) + 1) * HOUR

\* POST /time/fast-forward: fastForwardTime(), then updateFlightStatuses()
FastForward ==
  /\ NextHour(now) <= MaxNow
  /\ now' = NextHour(now)
  /\ LET r == UpdateFlightStatuses(flights, weatherEvents, now') IN
       /\ flights' = r.flights
       /\ alertsAdded' = r.alerts
  /\ op' = "fastForward"
  /\ ret' = Returned(TRUE, "", 0)
  /\ UNCHANGED <<students, weatherEvents, nextId>>

\* the background tick: advanceTimeByMinutes(10), updateFlightStatuses(),
\* cleanupAndGenerateFlights()
Tick ==
  /\ now + TickMinutes <= MaxNow
  /\ now' = now + TickMinutes
  /\ \E picks \in SweepDraws(UpdateFlightStatuses(flights, weatherEvents, now').flights, now') :
       LET r == UpdateFlightStatuses(flights, weatherEvents, now')
           g == CleanupAndGenerateFlights(picks, r.flights, now', nextId.flights)
       IN /\ flights' = g.flights
          /\ nextId' = [nextId EXCEPT !.flights = @ + g.generated]
          /\ alertsAdded' = r.alerts \o
               (IF g.generated > 0 THEN <<Alert("generated", g.generated, 0)>> ELSE <<>>)
          /\ ret' = Returned(TRUE, "", g.removed)
  /\ op' = "tick"
  /\ UNCHANGED <<students, weatherEvents>>

Next ==
  \/ Seed
  \/ SimulateWeather
  \/ SafetyCheckOp
  \/ Reschedule
  \/ Cleanup
  \/ FastForward
  \/ Tick

Spec == Init /\ [][Next]_vars

(***************************************************************************)
(* Properties                                                               *)
(***************************************************************************)
\* a flight that occupies its instructor and its plane
Occupies(f) == f.status # "cancelled" /\ f.status # "affected"

\* C1: no two distinct flights whose status is neither cancelled nor affected
\* share an instructor or share a plane while their half-open intervals
\* [start_time, end_time) overlap
NoDoubleBooking ==
  \A i, j \in 1..Len(flights) :
    (/\ i # j
     /\ Occupies(flights[i])
     /\ Occupies(flights[j])
     /\ (\/ flights[i].instructor_id = flights[j].instructor_id
         \/ flights[i].plane_id = flights[j].plane_id))
    => ~Overlaps(flights[i].start_time, flights[i].end_time,
                 flights[j].start_time, flights[j].end_time)

(***************************************************************************)
(* Availability helpers of the bulk rescheduler (reschedule.ts)             *)
(***************************************************************************)
\* the WHERE clause of both COUNT(*) queries
RescheduleConflict(f, startTime, endTime) ==
  /\ f.status # "cancelled"
  /\ \/ (f.start_time < endTime /\ f.end_time > startTime)
     \/ (f.start_time < endTime /\ f.end_time > startTime)
     \/ (f.start_time >= startTime /\ f.end_time <= endTime)

RescheduleIsInstructorAvailable(fs, instructorId, startTime, endTime) ==
  LET count == Len(SelectSeq(fs, LAMBDA f :
                 f.instructor_id = instructorId /\ RescheduleConflict(f, startTime, endTime)))
  IN count = 0

\* the helper that finds every plane free
RescheduleIsPlaneAlwaysAvailable(fs, planeId, startTime, endTime) == TRUE

RescheduleIsPlaneAvailable(fs, planeId, startTime, endTime) ==
  LET count == Len(SelectSeq(fs, LAMBDA f :
                 f.plane_id = planeId /\ RescheduleConflict(f, startTime, endTime)))
  IN count = 0

(***************************************************************************)
(* Bulk rescheduler (reschedule.ts).  It reads the tables students,         *)
(* instructors, planes, flights and weather_events, held here by the store's *)
(* collections, and the wall clock of the host, taken in the zone of the     *)
(* stored times.                                                             *)
(***************************************************************************)
Max(a, b) == IF a > b THEN a ELSE b

\* Date.setHours(0, 0, 0, 0), getHours() and getMinutes()
DayStart(t) == (t \div DAY) * DAY

GetHours(t) == (t % DAY) \div HOUR

GetMinutes(t) == t % HOUR

\* SELECT id FROM instructors / planes: the ids in the order inserted
RECURSIVE TableOf(_)
TableOf(ids) ==
  IF ids = {} THEN <<>>
  ELSE LET first == CHOOSE x \in ids : \A y \in ids : x <= y
       IN <<first>> \o TableOf(ids \ {first})

GetPreferredTimeWindow(preferredTime) ==
  CASE preferredTime = "morning" -> [start |-> 8, end |-> 11]
    [] preferredTime = "noon" -> [start |-> 11, end |-> 14]
    [] preferredTime = "afternoon" -> [start |-> 14, end |-> 17]
    [] OTHER -> [start |-> 8, end |-> 17]

NoSlot == [found |-> FALSE, startTime |-> 0, endTime |-> 0, instructorId |-> 0, planeId |-> 0]

\* the loops that take the first instructor and the first plane unasked
FirstPairUnchecked(fs, instructors, planes, startTime, endTime, i, p) ==
  IF instructors = <<>> \/ planes = <<>> THEN NoSlot
  ELSE [found |-> TRUE, startTime |-> startTime, endTime |-> endTime,
        instructorId |-> instructors[1], planeId |-> planes[1]]

\* for (const instructor of instructors) for (const plane of planes): the first
\* pair both helpers accept
RECURSIVE FirstPair(_, _, _, _, _, _, _)
FirstPair(fs, instructors, planes, startTime, endTime, i, p) ==
  IF i > Len(instructors) THEN NoSlot
  ELSE IF p > Len(planes) THEN FirstPair(fs, instructors, planes, startTime, endTime, i + 1, 1)
  ELSE IF /\ RescheduleIsInstructorAvailable(fs, instructors[i], startTime, endTime)
          /\ RescheduleIsPlaneAvailable(fs, planes[p], startTime, endTime)
       THEN [found |-> TRUE, startTime |-> startTime, endTime |-> endTime,
             instructorId |-> instructors[i], planeId |-> planes[p]]
       ELSE FirstPair(fs, instructors, planes, startTime, endTime, i, p + 1)

\* for (let hour = ...; hour < endHour; hour++): the hours of skipped are passed
\* over, and so is a candidate before earliestStart
RECURSIVE ScanHours(_, _, _, _, _, _, _)
ScanHours(fs, instructors, planes, earliestStart, hour, endHour, skipped) ==
  IF hour >= endHour THEN NoSlot
  ELSE LET candidateDate == DayStart(earliestStart) + hour * HOUR
           endDate == DayStart(earliestStart) + (hour + 1) * HOUR
           pair == FirstPair(fs, instructors, planes, candidateDate, endDate, 1, 1)
       IN IF \/ (hour >= skipped.start /\ hour < skipped.end)
             \/ candidateDate < earliestStart
             \/ ~pair.found
          THEN ScanHours(fs, instructors, planes, earliestStart, hour + 1, endHour, skipped)
          ELSE pair

\* the finder that always answers, with the hour after the last one
FindSlotNeverNone(fs, instructors, planes, flight, earliestStart, preferredWindow) ==
  [found |-> TRUE, startTime |-> DayStart(earliestStart) + LastHour * HOUR,
   endTime |-> DayStart(earliestStart) + (LastHour + 1) * HOUR,
   instructorId |-> instructors[1], planeId |-> planes[1]]

\* findAvailableSlot(flight, earliestStart, preferredWindow): the preferred
\* window first, then the other hours of 8..17, all on earliestStart's day
FindAvailableSlot(fs, instructors, planes, flight, earliestStart, preferredWindow) ==
  LET fromHour == IF GetMinutes(earliestStart) > 0 THEN GetHours(earliestStart) + 1
                  ELSE GetHours(earliestStart)
      preferredStartHour == Max(preferredWindow.start, fromHour)
      otherStartHour == Max(FirstHour, fromHour)
      preferred == ScanHours(fs, instructors, planes, earliestStart, preferredStartHour,
                             preferredWindow.end, [start |-> 0, end |-> 0])
  IN IF preferred.found THEN preferred
     ELSE ScanHours(fs, instructors, planes, earliestStart, otherStartHour, LastHour,
                    preferredWindow)

\* a selection that takes the affected flights with the cancelled ones
CancelledOrAffectedFlights(fs) ==
  SortByStart(SelectSeq(fs, LAMBDA f : f.status \in {"cancelled", "affected"}))

\* WHERE f.status = 'cancelled' ORDER BY f.start_time ASC
CancelledFlights(fs) == SortByStart(SelectSeq(fs, LAMBDA f : f.status = "cancelled"))

\* WHERE end_time > datetime('now'): end_time is ISO text (2025-01-06T09:00:00.000Z)
\* and datetime('now') is 2025-01-06 09:00:00; text is compared, and T sorts
\* after the blank, so an event qualifies when its end is on the wall clock's
\* day or a later one
EndsAfterNowAsText(w, wall) == DayStart(w.end_time) >= DayStart(wall)

\* the floor that takes no weather into account
EarliestStartNow(ws, wall) == wall

\* SELECT MAX(end_time); earliestStart is that end when it is after new Date(),
\* new Date() otherwise
EarliestStart(ws, wall) ==
  LET ends == {ws[i].end_time : i \in {j \in 1..Len(ws) : EndsAfterNowAsText(ws[j], wall)}}
      latest == CHOOSE e \in ends : \A x \in ends : x <= e
  IN IF ends # {} /\ latest > wall THEN latest ELSE wall

\* flight.student_preferred_time || "morning", of the LEFT JOIN with students
PreferredTimeOf(studs, flight) ==
  IF flight.student_id \in DOMAIN studs /\ studs[flight.student_id] # ""
  THEN studs[flight.student_id] ELSE "morning"

\* the loop over the cancelled flights: each is moved to the slot found in the
\* table as the flights before it left it, or reported as not rescheduled
RECURSIVE RescheduleLoop(_, _, _, _, _, _, _)
RescheduleLoop(acc, studs, instructors, planes, cancelled, earliestStart, k) ==
  IF k > Len(cancelled) THEN acc
  ELSE LET flight == cancelled[k]
           slot == FindAvailableSlot(acc.flights, instructors, planes, flight, earliestStart,
                                     GetPreferredTimeWindow(PreferredTimeOf(studs, flight)))
       IN IF slot.found
          THEN RescheduleLoop(
                 [flights |-> SetSchedule(acc.flights, flight.id, slot.startTime, slot.endTime,
                                          slot.instructorId, slot.planeId, "rescheduled"),
                  alerts |-> Append(acc.alerts, Alert("bulk_rescheduled", flight.id, slot.startTime)),
                  rescheduled |-> acc.rescheduled + 1,
                  failed |-> acc.failed],
                 studs, instructors, planes, cancelled, earliestStart, k + 1)
          ELSE RescheduleLoop(
                 [acc EXCEPT !.alerts = Append(@, Alert("not_rescheduled", flight.id, 0)),
                             !.failed = @ + 1],
                 studs, instructors, planes, cancelled, earliestStart, k + 1)

\* rescheduleFlights()
RescheduleFlights(fs, ws, studs, instructors, planes, wall) ==
  LET cancelled == CancelledFlights(fs)
      r == RescheduleLoop([flights |-> fs, alerts |-> <<>>, rescheduled |-> 0, failed |-> 0],
                          studs, instructors, planes, cancelled, EarliestStart(ws, wall), 1)
  IN IF cancelled = <<>>
     THEN [flights |-> fs, alerts |-> <<Alert("no_cancelled", 0, 0)>>,
           rescheduled |-> 0, failed |-> 0]
     ELSE [r EXCEPT !.alerts = Append(@, Alert("bulk_summary", r.rescheduled, r.failed))]

\* the wall clocks at which POST /reschedule arrives; nothing ties the host's
\* clock to the simulated one: the Sunday afternoon before the seeded week, and
\* the Monday of that week at 08:20, at 15:50 and at 17:30
WallClocks == {15 * HOUR + TickMinutes - DAY, 8 * HOUR + 2 * TickMinutes,
               15 * HOUR + 5 * TickMinutes, 17 * HOUR + 3 * TickMinutes}

\* POST /reschedule
BulkReschedule ==
  \E wall \in WallClocks :
    LET r == RescheduleFlights(flights, weatherEvents, students, TableOf(Instructors),
                               TableOf(Planes), wall)
    IN /\ flights' = r.flights
       /\ alertsAdded' = r.alerts
       /\ op' = "rescheduleFlights"
       /\ ret' = Returned(TRUE, "", r.rescheduled)
       /\ UNCHANGED <<now, students, weatherEvents, nextId>>

\* ids of no instructor and of no plane, and the lengths of the interval a
\* caller of POST /flights/:id/reschedule may send
UnknownIds == {9}
RequestLengths == {HOUR, 2 * HOUR}

\* the instructor, plane and length of the requests followed: those of the
\* store for any length, and an unknown instructor or plane for one hour
RequestsDrawn ==
  (Instructors \X Planes \X RequestLengths)
    \cup (UnknownIds \X Planes \X {HOUR})
    \cup (Instructors \X UnknownIds \X {HOUR})

\* POST /flights/:id/reschedule, with whatever the caller sends
RescheduleAny ==
  \E flightId \in 1..nextId.flights, startTime \in RequestStarts, req \in RequestsDrawn :
    LET instructorId == req[1]
        planeId == req[2]
        r == UpdateFlightSchedule(flights, weatherEvents, now, flightId, startTime,
                                  startTime + req[3], instructorId, planeId)
    IN /\ flights' = r.flights
       /\ alertsAdded' = r.alerts
       /\ op' = "reschedule"
       /\ ret' = Returned(r.ok, r.message, 0)
       /\ UNCHANGED <<now, students, weatherEvents, nextId>>

\* the store under weather, the clock, and both reschedulers
RescheduleInit == InitFrom(PREFERRED_TIMES)

RescheduleNext ==
  \/ SimulateWeather
  \/ FastForward
  \/ RescheduleAny
  \/ BulkReschedule

RescheduleSpec == RescheduleInit /\ [][RescheduleNext]_vars

(***************************************************************************)
(* The background process over a working day: the store seeded with a row  *)
(* of hourly flights, the clock moved by ticks and fast-forwards until the  *)
(* early flights are old enough to be swept and replaced.                    *)
(***************************************************************************)
\* flights of the seeded row, one per hour from Monday 08:00 (the program: 40,
\* nine a day)
SweepSeedFlights == 6
\* the clock stops advancing at SweepMaxNow (Monday 16:20)
SweepMaxNow == 980

\* the draw followed for every flight a Sweep generates
DrawsFollowed ==
  {[student |-> 1, instructor |-> 1, plane |-> 1, route |-> GENERATED_ROUTES[1]]}

SweepDrawsFollowed(fs, t) ==
  LET removed == Len(fs) - Len(RemoveOldCompletedFlights(fs, t))
  IN [1..Min(removed * GeneratePerRemoved, GenerateCap) -> DrawsFollowed]

\* the seeded row: every flight with instructor 1 and plane 1 on the first route
SweepInit ==
  /\ now = SeedStart(0) - SeedLead
  /\ flights = [k \in 1..SweepSeedFlights |->
                  [id |-> k, student_id |-> (((k - 1) \div 2) % NumStudents) + 1,
                   instructor_id |-> 1, plane_id |-> 1,
                   start_time |-> SeedStart(k - 1), end_time |-> SeedStart(k - 1) + HOUR,
                   route |-> AVAILABLE_ROUTES[1], status |-> "scheduled"]]
  /\ students \in SeedStudents(PreferencesDrawn)
  /\ weatherEvents = <<>>
  /\ nextId = [flights |-> SweepSeedFlights + 1, weatherEvents |-> 1]
  /\ alertsAdded = <<Alert("seeded", SweepSeedFlights, 0)>>
  /\ op = "seed"
  /\ ret = Returned(TRUE, "", SweepSeedFlights)

\* POST /simulate-weather, once, as the first flight is about to start
MorningStorm ==
  /\ weatherEvents = <<>>
  /\ now = FirstHour * HOUR
  /\ SimulateWeather

\* POST /time/fast-forward, up to SweepMaxNow
LateFastForward ==
  /\ NextHour(now) <= SweepMaxNow
  /\ now' = NextHour(now)
  /\ LET r == UpdateFlightStatuses(flights, weatherEvents, now') IN
       /\ flights' = r.flights
       /\ alertsAdded' = r.alerts
  /\ op' = "fastForward"
  /\ ret' = Returned(TRUE, "", 0)
  /\ UNCHANGED <<students, weatherEvents, nextId>>

\* a tick that sweeps the board before it runs the status transitions
TickSweepFirst ==
  /\ now + TickMinutes <= SweepMaxNow
  /\ now' = now + TickMinutes
  /\ \E picks \in SweepDrawsFollowed(flights, now') :
       LET g == CleanupAndGenerateFlights(picks, flights, now', nextId.flights)
           r == UpdateFlightStatuses(g.flights, weatherEvents, now')
       IN /\ flights' = r.flights
          /\ nextId' = [nextId EXCEPT !.flights = @ + g.generated]
          /\ alertsAdded' = r.alerts \o
               (IF g.generated > 0 THEN <<Alert("generated", g.generated, 0)>> ELSE <<>>)
          /\ ret' = Returned(TRUE, "", g.removed)
  /\ op' = "tick"
  /\ UNCHANGED <<students, weatherEvents>>

\* the background tick, up to SweepMaxNow
LateTick ==
  /\ now + TickMinutes <= SweepMaxNow
  /\ now' = now + TickMinutes
  /\ \E picks \in SweepDrawsFollowed(UpdateFlightStatuses(flights, weatherEvents, now').flights,
                                    now') :
       LET r == UpdateFlightStatuses(flights, weatherEvents, now')
           g == CleanupAndGenerateFlights(picks, r.flights, now', nextId.flights)
       IN /\ flights' = g.flights
          /\ nextId' = [nextId EXCEPT !.flights = @ + g.generated]
          /\ alertsAdded' = r.alerts \o
               (IF g.generated > 0 THEN <<Alert("generated", g.generated, 0)>> ELSE <<>>)
          /\ ret' = Returned(TRUE, "", g.removed)
  /\ op' = "tick"
  /\ UNCHANGED <<students, weatherEvents>>

\* the steps of the tick that may throw into the catch around the three calls
ThrowingSteps == {"updateFlightStatuses", "cleanupAndGenerateFlights"}

\* a tick one of whose steps throws as it begins: the catch logs the error and
\* the callback ends; the steps before the throw have run, those after have not
TickInterrupted ==
  /\ now + TickMinutes <= SweepMaxNow
  /\ now' = now + TickMinutes
  /\ \E thrown \in ThrowingSteps :
       LET r == UpdateFlightStatuses(flights, weatherEvents, now')
       IN /\ flights' = IF thrown = "updateFlightStatuses" THEN flights ELSE r.flights
          /\ alertsAdded' = IF thrown = "updateFlightStatuses" THEN <<>> ELSE r.alerts
          /\ ret' = Returned(FALSE, thrown, 0)
  /\ op' = "tickError"
  /\ UNCHANGED <<students, weatherEvents, nextId>>

SweepNext ==
  \/ MorningStorm
  \/ LateFastForward
  \/ LateTick
  \/ TickInterrupted

SweepSpec == SweepInit /\ [][SweepNext]_vars

(***************************************************************************)
(* The background process under a storm forecast for the next morning: the *)
(* Sweep places its new flights from 08:00 of the next day, inside the      *)
(* window of the event, and no safety check follows a tick.                 *)
(***************************************************************************)
\* duration_hours of the forecast storm
ForecastHours == 3

\* POST /simulate-weather with start_time 08:00 of the next day, once, as the
\* first flight is about to start
ForecastStorm ==
  /\ weatherEvents = <<>>
  /\ now = FirstHour * HOUR
  /\ \E sel \in RouteSelections :
       LET startTime == DAY + FirstHour * HOUR
           w == [id |-> nextId.weatherEvents, start_time |-> startTime,
                 end_time |-> startTime + ForecastHours * HOUR,
                 affected_routes |-> JoinRoutes(PickRoutes(sel)),
                 condition |-> "storm"]
           ws == Append(weatherEvents, w)
           r == SafetyCheck(flights, ws, now)
       IN /\ weatherEvents' = ws
          /\ nextId' = [nextId EXCEPT !.weatherEvents = @ + 1]
          /\ flights' = r.flights
          /\ alertsAdded' = <<Alert("simulated", ForecastHours, w.id)>> \o r.alerts
          /\ op' = "simulateWeather"
          /\ ret' = Returned(TRUE, "", r.cancelled)
          /\ UNCHANGED <<now, students>>

ForecastNext ==
  \/ ForecastStorm
  \/ LateFastForward
  \/ LateTick

ForecastSpec == SweepInit /\ [][ForecastNext]_vars

(***************************************************************************)
(* generateNewScheduledFlights as a function of the board it is given: a   *)
(* row of booked hours from 08:00 of the next day, as the Sweep builds it,  *)
(* followed by a flight that a manual reschedule has stored with an         *)
(* end_time days after its start_time and that occupies every slot in       *)
(* between, so that the retry loop runs into its limit of attempts and      *)
(* into its limit of days.                                                  *)
(***************************************************************************)
\* the longest row of booked hours drawn
MaxCrowd == 12
\* the counts the generator is called with
MaxCount == 3
\* the days the long flight lasts (0: there is none); 12 days hold 108 slots,
\* more than the attempts of one flight, and 16 days reach past the last day
BlockDays == {0, 5, 12, 16}

\* a board whose first k slots from 08:00 of the next day are booked, the
\* slots of the days that follow being taken by one flight
CrowdedBoard(k, days) ==
  [i \in 1..(k + (IF days > 0 THEN 1 ELSE 0)) |->
     [id |-> i, student_id |-> 1, instructor_id |-> 1, plane_id |-> 1,
      start_time |-> DAY + SeedStart(i - 1),
      end_time |-> DAY + SeedStart(i - 1) + (IF i > k THEN days * DAY ELSE HOUR),
      route |-> IF i > k THEN AVAILABLE_ROUTES[1] ELSE GENERATED_ROUTES[1],
      status |-> "scheduled"]]

GenerateInit ==
  \E k \in 0..MaxCrowd, days \in BlockDays :
    /\ now = SeedStart(0) - SeedLead
    /\ flights = CrowdedBoard(k, days)
    /\ students \in SeedStudents(PreferencesDrawn)
    /\ weatherEvents = <<>>
    /\ nextId = [flights |-> Len(CrowdedBoard(k, days)) + 1, weatherEvents |-> 1]
    /\ alertsAdded = <<>>
    /\ op = "tick"
    /\ ret = Returned(TRUE, "", 0)

\* generateNewScheduledFlights(count)
GenerateFlights ==
  /\ Len(flights) <= MaxCrowd + 1
  /\ \E count \in 0..MaxCount :
       \E picks \in [1..count -> DrawsFollowed] :
         LET g == GenerateNewScheduledFlights(count, picks, flights, now, nextId.flights)
         IN /\ flights' = g.flights
            /\ nextId' = [nextId EXCEPT !.flights = @ + g.generated]
            /\ alertsAdded' =
                 IF g.generated > 0 THEN <<Alert("generated", g.generated, 0)>> ELSE <<>>
            /\ ret' = Returned(TRUE, "", g.generated)
  /\ op' = "generate"
  /\ UNCHANGED <<now, students, weatherEvents>>

\* POST /time/fast-forward to the first hour of the day
EarlyFastForward ==
  /\ NextHour(now) <= FirstHour * HOUR
  /\ now' = NextHour(now)
  /\ LET r == UpdateFlightStatuses(flights, weatherEvents, now') IN
       /\ flights' = r.flights
       /\ alertsAdded' = r.alerts
  /\ op' = "fastForward"
  /\ ret' = Returned(TRUE, "", 0)
  /\ UNCHANGED <<students, weatherEvents, nextId>>

GenerateNext ==
  \/ GenerateFlights
  \/ EarlyFastForward

GenerateSpec == GenerateInit /\ [][GenerateNext]_vars

(***************************************************************************)
(* safetyCheck as a function of the store it is given                       *)
(***************************************************************************)
\* the weather events a store may hold when safetyCheck is called on it: up to
\* MaxWeather events from Monday 08:00, each as simulateWeather writes one
StoredEvents ==
  {[start_time |-> FirstHour * HOUR,
    end_time |-> FirstHour * HOUR + durationHours * HOUR,
    affected_routes |-> JoinRoutes(PickRoutes(sel)),
    condition |-> "storm"] : sel \in RouteSelections, durationHours \in WeatherDurations}

StoredWeather ==
  {<<>>} \cup {<<e>> : e \in StoredEvents} \cup {<<e1, e2>> : e1, e2 \in StoredEvents}

WithIds(ws) ==
  [i \in 1..Len(ws) |->
     [id |-> i, start_time |-> ws[i].start_time, end_time |-> ws[i].end_time,
      affected_routes |-> ws[i].affected_routes, condition |-> ws[i].condition]]

\* a seeded board and a list of stored events, before any safety check has
\* seen them
SafetyInit ==
  \E picks \in SeedPicks, studs \in SeedStudents(PreferencesDrawn), ws \in StoredWeather :
    /\ students = studs
    /\ now = SeededStore(picks).now
    /\ flights = SeededStore(picks).flights
    /\ weatherEvents = WithIds(ws)
    /\ nextId = [SeededStore(picks).nextId EXCEPT !.weatherEvents = Len(ws) + 1]
    /\ alertsAdded = SeededStore(picks).alerts
    /\ op = "seed"
    /\ ret = Returned(TRUE, "", SeedFlights)

SafetyNext ==
  \/ SafetyCheckOp
  \/ SimulateWeather
  \/ FastForward

SafetySpec == SafetyInit /\ [][SafetyNext]_vars

(***************************************************************************)
(* GET /flights/:id/available-slots (getAvailableTimeSlots)                 *)
(***************************************************************************)
\* the days the listing covers, from the day of the simulated clock
SlotDays == 7

\* an availability that leaves the weather out
SlotAvailableWhateverWeather(fs, ws, t, flight, slotStart, slotEnd, instructorId, planeId) ==
  /\ IsInstructorAvailable(fs, instructorId, slotStart, slotEnd, flight.id)
  /\ IsPlaneAvailable(fs, planeId, slotStart, slotEnd, flight.id)

\* available = instructorAvailable && planeAvailable && !affectedByWeather
SlotAvailable(fs, ws, t, flight, slotStart, slotEnd, instructorId, planeId) ==
  /\ IsInstructorAvailable(fs, instructorId, slotStart, slotEnd, flight.id)
  /\ IsPlaneAvailable(fs, planeId, slotStart, slotEnd, flight.id)
  /\ ~IsSlotAffectedByWeather(ws, t, flight.route, slotStart, slotEnd)

\* the starts of the slots the loops reach: each of SlotDays days from the
\* day of the clock, each hour from 8 to 16, those before the clock skipped
SlotStartsListed(t) ==
  {slotStart \in {DayStart(t) + day * DAY + hour * HOUR :
                    day \in 0..(SlotDays - 1), hour \in FirstHour..(LastHour - 1)} :
     ~(slotStart < t)}

\* getAvailableTimeSlots(flightId), for a flight of the store: a slot for
\* each start reached, each instructor and each plane
GetAvailableTimeSlots(fs, ws, t, flightId) ==
  {[start_time |-> slotStart,
    end_time |-> slotStart + HOUR,
    instructor_id |-> instructorId,
    plane_id |-> planeId,
    available |-> SlotAvailable(fs, ws, t, GetFlight(fs, flightId), slotStart,
                                slotStart + HOUR, instructorId, planeId)] :
     slotStart \in SlotStartsListed(t), instructorId \in Instructors, planeId \in Planes}

(***************************************************************************)
(* GET /routes (getAllRoutesWithStatus)                                     *)
(***************************************************************************)
\* a route test that takes every event not yet ended for active weather
RouteHasPendingWeather(ws, t, route) ==
  \E i \in 1..Len(ActiveWeather(ws, t)) :
    Includes(ParseRoutes(ActiveWeather(ws, t)[i].affected_routes), route)

\* weatherEvents.find(...): an event that has not ended lists the route and
\* simTime >= eventStart && simTime < eventEnd
RouteHasActiveWeather(ws, t, route) ==
  \E i \in 1..Len(ActiveWeather(ws, t)) :
    LET event == ActiveWeather(ws, t)[i] IN
      /\ Includes(ParseRoutes(event.affected_routes), route)
      /\ t >= event.start_time
      /\ t < event.end_time

\* getAllRoutesWithStatus(): one record for each of AVAILABLE_ROUTES, in order
GetAllRoutesWithStatus(ws, t) ==
  [k \in 1..Len(AVAILABLE_ROUTES) |->
     [route |-> AVAILABLE_ROUTES[k],
      status |-> IF RouteHasActiveWeather(ws, t, AVAILABLE_ROUTES[k])
                   THEN "unsafe" ELSE "clear"]]

(***************************************************************************)
(* The alert log (InMemoryStore.addAlert, getAlerts) and GET /alerts        *)
(***************************************************************************)
\* the alerts the read returns at most
AlertsLimit == 50

\* the alerts stamped with the simulated clock: that of simulateWeather and
\* that of a cancellation by the status transitions; every other addAlert is
\* stamped new Date(), the wall clock
SimulationStamped == {"simulated", "cancelled"}

\* addAlert(timestamp, message), once for each alert of a request in the order
\* the request adds them: ids in sequence, the timestamp by the alert's kind.
\* The request runs within one reading of the wall clock.
AddAlerts(added, t, wall) ==
  [i \in 1..Len(added) |->
     [id |-> i,
      timestamp |-> IF added[i].kind \in SimulationStamped THEN t ELSE wall,
      message |-> added[i]]]

\* one step of the stable sort by timestamp, latest first: a goes behind every
\* alert of sorted whose timestamp is not earlier than its own
RECURSIVE InsertByTimestamp(_, _)
InsertByTimestamp(sorted, a) ==
  IF sorted = <<>> THEN <<a>>
  ELSE IF Head(sorted).timestamp >= a.timestamp
    THEN <<Head(sorted)>> \o InsertByTimestamp(Tail(sorted), a)
  ELSE <<a>> \o sorted

RECURSIVE SortByTimestampDesc(_, _)
SortByTimestampDesc(alerts, sorted) ==
  IF alerts = <<>> THEN sorted
  ELSE SortByTimestampDesc(Tail(alerts), InsertByTimestamp(sorted, Head(alerts)))

\* getAlerts(limit): a sorted copy, cut to limit when limit is not 0
GetAlerts(alerts, limit) ==
  LET sorted == SortByTimestampDesc(alerts, <<>>)
  IN IF limit # 0 THEN SubSeq(sorted, 1, Min(limit, Len(sorted))) ELSE sorted

\* GET /alerts: the latest AlertsLimit alerts
GetAllAlerts(alerts) == GetAlerts(alerts, AlertsLimit)

\* some flight other than excludeFlightId is bound to the resource, occupies it
\* and overlaps [startTime, endTime)
InstructorTaken(instructorId, startTime, endTime, excludeFlightId) ==
  \E i \in 1..Len(flights) :
    /\ flights[i].id # excludeFlightId
    /\ flights[i].instructor_id = instructorId
    /\ Occupies(flights[i])
    /\ flights[i].start_time < endTime
    /\ flights[i].end_time > startTime

PlaneTaken(planeId, startTime, endTime, excludeFlightId) ==
  \E i \in 1..Len(flights) :
    /\ flights[i].id # excludeFlightId
    /\ flights[i].plane_id = planeId
    /\ Occupies(flights[i])
    /\ flights[i].start_time < endTime
    /\ flights[i].end_time > startTime

\* the characterisation, for the checker of calendar.ts alone
CalendarAvailability ==
  \A startTime \in RequestStarts, excludeFlightId \in 0..nextId.flights :
    /\ \A instructorId \in Instructors :
         IsInstructorAvailable(flights, instructorId, startTime, startTime + HOUR,
                               excludeFlightId)
           = ~InstructorTaken(instructorId, startTime, startTime + HOUR, excludeFlightId)
    /\ \A planeId \in Planes :
         IsPlaneAvailable(flights, planeId, startTime, startTime + HOUR, excludeFlightId)
           = ~PlaneTaken(planeId, startTime, startTime + HOUR, excludeFlightId)

\* C2: the availability check returns false if and only if some flight other
\* than the excluded one is bound to the instructor or plane, is neither
\* cancelled nor affected, and has start_time < intervalEnd and end_time >
\* intervalStart, in calendar.ts and in reschedule.ts alike (reschedule.ts has
\* no flight to exclude: no flight has id 0)
AvailabilityCharacterised ==
  /\ CalendarAvailability
  /\ \A startTime \in RequestStarts :
       /\ \A instructorId \in Instructors :
            RescheduleIsInstructorAvailable(flights, instructorId, startTime, startTime + HOUR)
              = ~InstructorTaken(instructorId, startTime, startTime + HOUR, 0)
       /\ \A planeId \in Planes :
            RescheduleIsPlaneAvailable(flights, planeId, startTime, startTime + HOUR)
              = ~PlaneTaken(planeId, startTime, startTime + HOUR, 0)

\* the event's route list names the route, blanks around the names aside
ListsRoute(w, route) ==
  \E k \in 1..Len(w.affected_routes) : w.affected_routes[k][2] = route

\* the flight is scheduled or in progress, and some event of ws that has not
\* ended at t lists its route and overlaps it
HitByWeather(f, ws, t) ==
  /\ f.status \in {"scheduled", "in_progress"}
  /\ \E k \in 1..Len(ws) :
       /\ ws[k].end_time > t
       /\ ListsRoute(ws[k], f.route)
       /\ f.start_time < ws[k].end_time
       /\ f.end_time > ws[k].start_time

EngineStep == op' \in {"tick", "fastForward"}

\* C4: one run of the engine at time now moves a scheduled flight with
\* start_time <= now < end_time to in_progress, moves a scheduled or in_progress
\* flight with end_time <= now to completed (a scheduled flight may skip
\* in_progress), and leaves a scheduled flight with now < start_time as it is;
\* now = start_time gives in_progress and now = end_time gives completed
EngineTransitions ==
  [][EngineStep =>
       \A i \in 1..Len(flights), j \in 1..Len(flights') :
         flights'[j].id = flights[i].id =>
           LET f == flights[i]
               g == flights'[j]
           IN /\ (f.status = "scheduled" /\ f.start_time <= now' /\ now' < f.end_time)
                   => g.status = "in_progress"
              /\ (f.status \in {"scheduled", "in_progress"} /\ f.end_time <= now')
                   => g.status = "completed"
              /\ (f.status = "scheduled" /\ now' < f.start_time) => g = f]_vars

\* the engine has just run at the very minute one flight starts and another
\* ends: the first is in progress, the second completed, a later one scheduled
EngineTransitionsWitness ==
  /\ op \in {"tick", "fastForward"}
  /\ \E i, j \in 1..Len(flights) :
       /\ flights[i].status = "in_progress" /\ flights[i].start_time = now
       /\ flights[j].status = "completed" /\ flights[j].end_time = now

\* a cancelled or completed flight of the state before the step, if the store
\* still holds it after the step, has the status it had
TerminalKept ==
  \A i \in 1..Len(flights), j \in 1..Len(flights') :
    (/\ flights[i].status \in {"cancelled", "completed"}
     /\ flights'[j].id = flights[i].id)
    => flights'[j].status = flights[i].status

\* C5 as stated: once a flight is cancelled or completed no transition leaves
\* that status, under any sequence of ticks and user-triggered operations (a
\* seed replaces the flights, so it is left out)
TerminalStatuses == [][op' # "seed" => TerminalKept]_vars

\* C5: cancelled and completed are terminal under ticks, fast-forwards,
\* SimulateWeather, SafetyCheck and manual reschedule; Cleanup leaves them,
\* setting every flight back to scheduled (bulk reschedule, which exists to
\* move cancelled flights, is outside this statement)
TerminalButForCleanup ==
  [][/\ op' \in {"tick", "fastForward", "simulateWeather", "safetyCheck", "reschedule"}
          => TerminalKept
     /\ op' = "cleanup" =>
          /\ Len(flights') = Len(flights)
          /\ \A i \in 1..Len(flights) :
               flights'[i] = [flights[i] EXCEPT !.status = "scheduled"]]_vars

\* a safety check has just run over a cancelled flight whose route an active
\* event lists and whose hour the event overlaps
TerminalButForCleanupWitness ==
  /\ op = "safetyCheck"
  /\ \E i \in 1..Len(flights), k \in 1..Len(weatherEvents) :
       /\ flights[i].status = "cancelled"
       /\ weatherEvents[k].end_time > now
       /\ ListsRoute(weatherEvents[k], flights[i].route)
       /\ flights[i].start_time < weatherEvents[k].end_time
       /\ flights[i].end_time > weatherEvents[k].start_time

\* some event of ws lists the flight's route, has started by t and overlaps
\* the flight's interval
StormArrived(f, ws, t) ==
  \E k \in 1..Len(ws) :
    /\ ListsRoute(ws[k], f.route)
    /\ ws[k].start_time <= t
    /\ f.start_time < ws[k].end_time
    /\ f.end_time > ws[k].start_time

\* the alerts of one kind among those a step added
AlertsOfKind(kind) == SelectSeq(alertsAdded, LAMBDA a : a.kind = kind)

\* C6: an engine run moves an affected flight to cancelled exactly when some
\* weather event listing its route has started (start_time <= now) and the
\* flight's interval overlaps that event's window; it emits one alert for each
\* flight it cancels, and an affected flight whose overlapping events have not
\* started stays affected
CancelledWhenStormStarted ==
  [][EngineStep =>
       /\ \A i \in 1..Len(flights), j \in 1..Len(flights') :
            (flights[i].status = "affected" /\ flights'[j].id = flights[i].id) =>
              flights'[j] = IF StormArrived(flights[i], weatherEvents, now')
                              THEN [flights[i] EXCEPT !.status = "cancelled"]
                              ELSE flights[i]
       /\ Len(AlertsOfKind("cancelled"))' =
            Cardinality({i \in 1..Len(flights) :
                           /\ flights[i].status = "affected"
                           /\ \E j \in 1..Len(flights') :
                                /\ flights'[j].id = flights[i].id
                                /\ flights'[j].status = "cancelled"})]_vars

\* C7: no flight remains affected for ever.  The engine looks only at the events
\* that have not ended, and an ended event never becomes active again, so a
\* flight that is to be cancelled as the clock advances is one that an event
\* listing its route and overlapping it can still cancel: in every state each
\* affected flight has such an event that has not ended
AffectedFlightHasPendingStorm ==
  \A i \in 1..Len(flights) :
    flights[i].status = "affected" =>
      \E k \in 1..Len(weatherEvents) :
        /\ weatherEvents[k].end_time > now
        /\ ListsRoute(weatherEvents[k], flights[i].route)
        /\ flights[i].start_time < weatherEvents[k].end_time
        /\ flights[i].end_time > weatherEvents[k].start_time

\* the times at which the engine can run from the present state: the present
\* time again, the next tick, the next hour
EngineTimes == {now, now + TickMinutes, NextHour(now)}

\* C8: a second run of the engine with no clock advance and nothing else in
\* between changes no flight and emits no alert
EngineIdempotent ==
  \A t \in EngineTimes :
    LET first == UpdateFlightStatuses(flights, weatherEvents, t)
        second == UpdateFlightStatuses(first.flights, weatherEvents, t)
    IN /\ second.flights = first.flights
       /\ second.alerts = <<>>

\* the engine has just moved one flight to in_progress or completed and
\* cancelled another, with its alert
EngineIdempotentWitness ==
  /\ op \in {"tick", "fastForward"}
  /\ Len(AlertsOfKind("cancelled")) > 0
  /\ \E i \in 1..Len(flights) :
       \/ flights[i].status = "in_progress" /\ flights[i].start_time = now
       \/ flights[i].status = "completed" /\ flights[i].end_time = now

\* C9: SafetyCheck run twice in a row on an otherwise unchanged store makes no
\* further flight affected and reports zero affected flights the second time:
\* from any state a run followed by a run, and after a step that has just run
\* it (POST /safety-check, POST /simulate-weather) one more run
SafetyCheckIdempotent ==
  LET first == SafetyCheck(flights, weatherEvents, now)
      second == SafetyCheck(first.flights, weatherEvents, now)
  IN /\ second.flights = first.flights
     /\ second.cancelled = 0
     /\ op \in {"safetyCheck", "simulateWeather"} =>
          (first.flights = flights /\ first.cancelled = 0)

\* the safety check at the end of simulateWeather has just made both flights
\* affected
SafetyCheckIdempotentWitness ==
  /\ op = "simulateWeather"
  /\ ret.n = Len(flights)
  /\ Len(flights) > 1
  /\ \A i \in 1..Len(flights) : flights[i].status = "affected"

\* the interval overlaps an event that has not ended and lists the route
StormOverSlot(route, startTime, endTime) ==
  \E k \in 1..Len(weatherEvents) :
    /\ weatherEvents[k].end_time > now
    /\ ListsRoute(weatherEvents[k], route)
    /\ startTime < weatherEvents[k].end_time
    /\ endTime > weatherEvents[k].start_time

\* a request the claim says is rejected
MustReject(flightId, startTime, endTime, instructorId, planeId) ==
  \/ ~\E i \in 1..Len(flights) : flights[i].id = flightId
  \/ \E i \in 1..Len(flights) :
       /\ flights[i].id = flightId
       /\ \/ flights[i].status # "affected"
          \/ InstructorTaken(instructorId, startTime, endTime, flightId)
          \/ PlaneTaken(planeId, startTime, endTime, flightId)
          \/ StormOverSlot(flights[i].route, startTime, endTime)

\* C10: a manual reschedule whose flight id is unknown, whose flight is not
\* affected, whose instructor or plane is unavailable for the interval, or whose
\* interval overlaps an active weather event on the flight's route, returns a
\* failure with a reason; and a rejected manual reschedule adds, changes and
\* removes no flight, no weather event and no alert
RejectedRescheduleKeepsStore ==
  /\ [](\A flightId \in 1..nextId.flights, startTime \in RequestStarts,
           instructorId \in Instructors, planeId \in Planes :
          LET r == UpdateFlightSchedule(flights, weatherEvents, now, flightId, startTime,
                                        startTime + HOUR, instructorId, planeId)
          IN MustReject(flightId, startTime, startTime + HOUR, instructorId, planeId) =>
               /\ ~r.ok
               /\ r.message # ""
               /\ r.flights = flights
               /\ r.alerts = <<>>)
  /\ [][(op' = "reschedule" /\ ~ret'.ok) =>
          /\ UNCHANGED <<flights, students, weatherEvents, nextId, now>>
          /\ alertsAdded' = <<>>
          /\ ret'.message # ""]_vars

\* a reschedule of an affected flight has just been rejected for the weather
\* over the requested hour, the instructor and the plane being free
RejectedRescheduleKeepsStoreWitness ==
  /\ op = "reschedule"
  /\ ~ret.ok
  /\ ret.message = "This time slot is affected by active weather events"
  /\ \E i \in 1..Len(flights) : flights[i].status = "affected"

\* C11: a manual reschedule that names an instructor id or a plane id the store
\* does not hold is answered with an error and stored nowhere: in every
\* reachable state each flight's instructor_id and plane_id are those of an
\* instructor and of a plane of the store
UnknownResourceRejected ==
  \A i \in 1..Len(flights) :
    flights[i].instructor_id \in Instructors /\ flights[i].plane_id \in Planes

\* the flights after the flight at index i took the requested values
Overwritten(fs, i, startTime, endTime, instructorId, planeId) ==
  [fs EXCEPT ![i] = [id |-> fs[i].id, student_id |-> fs[i].student_id,
                     route |-> fs[i].route, start_time |-> startTime,
                     end_time |-> endTime, instructor_id |-> instructorId,
                     plane_id |-> planeId, status |-> "scheduled"]]

\* C12: a successful manual reschedule overwrites exactly the target flight's
\* start_time, end_time, instructor_id and plane_id with the requested values
\* and sets its status to scheduled; the flight's id, student and route, every
\* other flight and every weather event are unchanged
SuccessfulRescheduleFrame ==
  /\ [](\A flightId \in 1..nextId.flights, startTime \in RequestStarts, req \in RequestsDrawn :
          LET r == UpdateFlightSchedule(flights, weatherEvents, now, flightId, startTime,
                                        startTime + req[3], req[1], req[2])
          IN r.ok =>
               \E i \in 1..Len(flights) :
                 /\ flights[i].id = flightId
                 /\ r.flights = Overwritten(flights, i, startTime, startTime + req[3],
                                            req[1], req[2]))
  /\ [][(op' = "reschedule" /\ ret'.ok) =>
          /\ weatherEvents' = weatherEvents
          /\ \E i \in 1..Len(flights), startTime \in RequestStarts, req \in RequestsDrawn :
               flights' = Overwritten(flights, i, startTime, startTime + req[3],
                                      req[1], req[2])]_vars

SuccessfulRescheduleFrameWitness ==
  /\ op = "reschedule"
  /\ ret.ok
  /\ alertsAdded # <<>>
  /\ \E i \in 1..Len(flights) :
       flights[i].instructor_id \in Instructors /\ flights[i].instructor_id # 1

\* C20: in every reachable state every flight ends after it starts, exactly
\* one hour after, whichever operation created it or moved it last
OneHourFlights ==
  \A i \in 1..Len(flights) :
    /\ flights[i].end_time > flights[i].start_time
    /\ flights[i].end_time = flights[i].start_time + HOUR

\* C19: in every reachable state every flight's status is one of scheduled,
\* in_progress, completed, affected, cancelled; a flight that was rescheduled,
\* by hand or in bulk, is scheduled and takes part in the progression again
StatusOneOfFive ==
  \A i \in 1..Len(flights) :
    flights[i].status \in {"scheduled", "in_progress", "completed", "affected", "cancelled"}

\* the later of the simulated clock and the latest end of the events still
\* active at that clock that list the route
RouteFloor(route) ==
  LET ends == {weatherEvents[i].end_time :
                 i \in {j \in 1..Len(weatherEvents) :
                          /\ weatherEvents[j].end_time > now
                          /\ ListsRoute(weatherEvents[j], route)}}
  IN IF ends = {} THEN now ELSE CHOOSE e \in ends : \A x \in ends : x <= e

\* C18: the earliest start used to reschedule a cancelled flight is the later
\* of the simulated clock and the end of the latest active weather event on
\* the flight's route: an event that does not list the route does not delay
\* the flight, and the wall clock plays no part
FloorFromSimulatedClock ==
  \A wall \in WallClocks, i \in 1..Len(flights) :
    flights[i].status = "cancelled" =>
      EarliestStart(weatherEvents, wall) = RouteFloor(flights[i].route)

\* the flight's interval overlaps an event of ws that is active at t and lists
\* its route
InOngoingStorm(ws, f, t) ==
  \E k \in 1..Len(ws) :
    /\ ws[k].end_time > t
    /\ ListsRoute(ws[k], f.route)
    /\ Overlaps(f.start_time, f.end_time, ws[k].start_time, ws[k].end_time)

\* C13: a flight is never rescheduled into an ongoing storm: after a successful
\* reschedule, manual or bulk, the interval of the flight that was moved
\* overlaps no weather event that is active at the simulated clock and lists
\* the flight's route
NeverIntoOngoingStorm ==
  [][((op' = "reschedule" /\ ret'.ok) \/ op' = "rescheduleFlights") =>
       \A i \in 1..Len(flights') :
         flights'[i] # flights[i] => ~InOngoingStorm(weatherEvents', flights'[i], now')]_vars

NeverIntoOngoingStormWitness ==
  /\ op = "rescheduleFlights"
  /\ \E i \in 1..Len(flights) :
       /\ flights[i].status = "rescheduled"
       /\ \E k \in 1..Len(weatherEvents) :
            /\ weatherEvents[k].end_time > now
            /\ ListsRoute(weatherEvents[k], flights[i].route)
            /\ weatherEvents[k].end_time = flights[i].start_time

\* the values of earliestStart and the preferences FindSlot is examined with:
\* Monday 08:00, 08:20, 09:00, 11:00, 16:00, 16:30 and 17:30; the three preferences
\* and an unknown one
SlotFloors == {8 * HOUR, 8 * HOUR + 2 * TickMinutes, 9 * HOUR, 11 * HOUR, 16 * HOUR,
               16 * HOUR + 3 * TickMinutes, 17 * HOUR + 3 * TickMinutes}

SlotPreferences == PREFERRED_TIMES \cup {"evening"}

\* the instructor and the plane are both available for [startTime, endTime)
\* with the flight excludeFlightId left out: no flight that occupies them
\* overlaps the interval
PairAvailable(instructorId, planeId, startTime, endTime, excludeFlightId) ==
  /\ ~InstructorTaken(instructorId, startTime, endTime, excludeFlightId)
  /\ ~PlaneTaken(planeId, startTime, endTime, excludeFlightId)

\* the pairs in insertion order, instructors outer and planes inner
PairBefore(a, b) == a[1] < b[1] \/ (a[1] = b[1] /\ a[2] <= b[2])

\* slot is the first fit for the flight: the earliest hour of the window not
\* before earliestStart with an available pair, else the earliest such hour of
\* 8..17 outside the window, with the first available pair of that hour
IsFirstFit(slot, flightId, earliestStart, window) ==
  LET day == DayStart(earliestStart)
      Pairs(h) == {pr \in Instructors \X Planes :
                     PairAvailable(pr[1], pr[2], day + h * HOUR, day + (h + 1) * HOUR, flightId)}
      Qualifies(h) == day + h * HOUR >= earliestStart /\ Pairs(h) # {}
      preferred == {h \in window.start..(window.end - 1) : Qualifies(h)}
      others == {h \in FirstHour..(LastHour - 1) :
                   ~(h >= window.start /\ h < window.end) /\ Qualifies(h)}
      hours == IF preferred # {} THEN preferred ELSE others
      first == CHOOSE h \in hours : \A x \in hours : h <= x
      pair == CHOOSE pr \in Pairs(first) : \A x \in Pairs(first) : PairBefore(pr, x)
  IN hours # {} =>
       /\ slot.found
       /\ slot.startTime = day + first * HOUR
       /\ slot.endTime = day + (first + 1) * HOUR
       /\ slot.instructorId = pair[1]
       /\ slot.planeId = pair[2]

\* C14: FindSlot is first-fit with the preferred window first: it returns the
\* earliest whole hour of the student's preferred window (morning [8,11), noon
\* [11,14), afternoon [14,17), unknown [8,17)) not before earliestStart for
\* which some instructor and some plane are both available, with the first
\* such pair in insertion order, and an hour of 8..17 outside the window only
\* when no hour of the window qualifies
FindSlotFirstFit ==
  \A i \in 1..Len(flights), earliestStart \in SlotFloors, preferredTime \in SlotPreferences :
    flights[i].status = "cancelled" =>
      IsFirstFit(FindAvailableSlot(flights, TableOf(Instructors), TableOf(Planes),
                                   flights[i], earliestStart,
                                   GetPreferredTimeWindow(preferredTime)),
                 flights[i].id, earliestStart, GetPreferredTimeWindow(preferredTime))

\* the instructors and planes tables FindSlot is examined with
InstructorTables == {<<1>>, <<1, 2>>}

PlaneTables == {<<1>>, <<1, 2>>}

\* a flight that holds its instructor and plane for every availability test
Booked(f) == f.status \in {"scheduled", "in_progress", "completed"}

\* the cancelled flights of students who prefer the morning
MorningCancelled ==
  {i \in 1..Len(flights) :
     /\ flights[i].status = "cancelled"
     /\ PreferredTimeOf(students, flights[i]) = "morning"}

\* no flight other than cancelled ones overlaps [startTime, endTime)
HourEmpty(startTime, endTime) ==
  \A k \in 1..Len(flights) :
    flights[k].status # "cancelled" =>
      ~Overlaps(flights[k].start_time, flights[k].end_time, startTime, endTime)

\* an instructor of the table is booked from startTime to endTime
OneInstructorBooked(instructors, startTime, endTime) ==
  \E k \in 1..Len(flights) :
    /\ Booked(flights[k])
    /\ flights[k].instructor_id \in Range(instructors)
    /\ flights[k].start_time = startTime
    /\ flights[k].end_time = endTime

\* every pair of the tables has its instructor or its plane booked over
\* [startTime, endTime)
EveryPairBooked(instructors, planes, startTime, endTime) ==
  \A i \in Range(instructors), p \in Range(planes) :
    \E k \in 1..Len(flights) :
      /\ Booked(flights[k])
      /\ flights[k].instructor_id = i \/ flights[k].plane_id = p
      /\ Overlaps(flights[k].start_time, flights[k].end_time, startTime, endTime)

\* findAvailableSlot answers 09:00-10:00 for the flight at index i, asked with
\* earliestStart 08:00 and the morning window
NineToTen(instructors, planes, i) ==
  LET slot == FindAvailableSlot(flights, instructors, planes, flights[i], FirstHour * HOUR,
                                GetPreferredTimeWindow("morning"))
  IN /\ slot.found
     /\ slot.startTime = (FirstHour + 1) * HOUR
     /\ slot.endTime = (FirstHour + 2) * HOUR

NoHourLeft(flightId, earliestStart) ==
  \A h \in FirstHour..(LastHour - 1) :
    DayStart(earliestStart) + h * HOUR >= earliestStart =>
      \A pr \in Instructors \X Planes :
        ~PairAvailable(pr[1], pr[2], DayStart(earliestStart) + h * HOUR,
                       DayStart(earliestStart) + (h + 1) * HOUR, flightId)

\* flights i and j of fs hold the same instructor or plane over overlapping
\* intervals
DoubleBooked(fs, i, j) ==
  /\ i # j
  /\ Occupies(fs[i])
  /\ Occupies(fs[j])
  /\ fs[i].instructor_id = fs[j].instructor_id \/ fs[i].plane_id = fs[j].plane_id
  /\ Overlaps(fs[i].start_time, fs[i].end_time, fs[j].start_time, fs[j].end_time)

\* C16: when FindSlot exhausts both passes (earliestStart after 17:00, or every
\* instructor-plane pair taken for every remaining hour) it returns none; the
\* bulk rescheduler then leaves the flight's times, resources and cancelled
\* status untouched, records a failure alert, and creates no double booking
NoSlotLeavesCancelled ==
  /\ [](\A i \in 1..Len(flights), earliestStart \in SlotFloors,
           preferredTime \in SlotPreferences :
          (flights[i].status = "cancelled" /\ NoHourLeft(flights[i].id, earliestStart)) =>
            ~FindAvailableSlot(flights, TableOf(Instructors), TableOf(Planes), flights[i],
                               earliestStart, GetPreferredTimeWindow(preferredTime)).found)
  /\ [][op' = "rescheduleFlights" =>
          /\ Len(flights') = Len(flights)
          /\ \A i \in 1..Len(flights) :
               /\ flights[i].status # "cancelled" => flights'[i] = flights[i]
               /\ flights[i].status = "cancelled" =>
                    IF Alert("not_rescheduled", flights[i].id, 0) \in Range(alertsAdded')
                    THEN flights'[i] = flights[i]
                    ELSE flights'[i].status # "cancelled"
          /\ \A i, j \in 1..Len(flights) :
               DoubleBooked(flights', i, j) => DoubleBooked(flights, i, j)]_vars

\* a bulk reschedule has just moved one cancelled flight to 16:00-17:00 on the
\* only plane and found no hour left for another
NoSlotLeavesCancelledWitness ==
  /\ op = "rescheduleFlights"
  /\ \E i, j \in 1..Len(flights) :
       /\ flights[i].status = "cancelled"
       /\ Alert("not_rescheduled", flights[i].id, 0) \in Range(alertsAdded)
       /\ Alert("bulk_rescheduled", flights[j].id, (LastHour - 1) * HOUR) \in Range(alertsAdded)
       /\ NoHourLeft(flights[i].id, (LastHour - 1) * HOUR)

\* C17: round trip: whenever FindSlot returns a slot, IsAvailable for that
\* instructor and for that plane over the slot, excluding the flight being
\* moved, on the same store state is true for both
FindSlotRoundTrip ==
  \A i \in 1..Len(flights), earliestStart \in SlotFloors, preferredTime \in SlotPreferences :
    LET slot == FindAvailableSlot(flights, TableOf(Instructors), TableOf(Planes), flights[i],
                                  earliestStart, GetPreferredTimeWindow(preferredTime))
    IN (flights[i].status = "cancelled" /\ slot.found) =>
         /\ IsInstructorAvailable(flights, slot.instructorId, slot.startTime, slot.endTime,
                                  flights[i].id)
         /\ IsPlaneAvailable(flights, slot.planeId, slot.startTime, slot.endTime,
                             flights[i].id)

\* FindSlot has passed over 08:00, held by an affected flight, and answered
\* 09:00-10:00 for a cancelled flight; both checks of calendar.ts accept the slot
FindSlotRoundTripWitness ==
  \E i, a \in 1..Len(flights) :
    LET slot == FindAvailableSlot(flights, TableOf(Instructors), TableOf(Planes), flights[i],
                                  FirstHour * HOUR, GetPreferredTimeWindow("morning"))
    IN /\ flights[i].status = "cancelled"
       /\ flights[a].status = "affected"
       /\ flights[a].start_time = FirstHour * HOUR
       /\ slot.found
       /\ slot.startTime = (FirstHour + 1) * HOUR
       /\ IsInstructorAvailable(flights, slot.instructorId, slot.startTime, slot.endTime,
                                flights[i].id)
       /\ IsPlaneAvailable(flights, slot.planeId, slot.startTime, slot.endTime,
                           flights[i].id)

\* the ids of the flights of fs
FlightIds(fs) == {fs[i].id : i \in 1..Len(fs)}

\* the flights the sweep of the tick that ends in the primed state has seen:
\* those the status engine left, at the clock the tick advanced to
SeenBySweep == UpdateFlightStatuses(flights, weatherEvents, now').flights

\* completed, with end_time more than the retention window before t
EndedLongAgo(f, t) == f.status = "completed" /\ f.end_time < t - RetentionMinutes

\* C21: a Sweep removes exactly the flights whose status is completed and whose
\* end_time is more than 2 hours of simulated time in the past; a completed
\* flight that ended 2 hours ago or less, and every flight in any other
\* status, is kept unchanged, and the removed count returned is the number of
\* flights deleted
SweepRemovesLongEnded ==
  [][op' = "tick" =>
       /\ \A i \in 1..Len(SeenBySweep) :
            IF EndedLongAgo(SeenBySweep[i], now')
            THEN SeenBySweep[i].id \notin FlightIds(flights')
            ELSE \E j \in 1..Len(flights') : flights'[j] = SeenBySweep[i]
       /\ ret'.n = Cardinality(FlightIds(SeenBySweep) \ FlightIds(flights'))]_vars

\* the flights of the board after a step that the step has generated
GeneratedBySweep == {i \in 1..Len(flights') : flights'[i].id >= nextId.flights}

\* C22: every flight generated by a Sweep occupies a one-hour slot in which
\* its instructor and its plane are used by no other flight that is neither
\* cancelled nor affected, the other flights of the same Sweep included
SweepNeverDoubleBooks ==
  [][op' = "tick" =>
       \A i \in GeneratedBySweep :
         /\ flights'[i].end_time = flights'[i].start_time + HOUR
         /\ \A j \in 1..Len(flights') :
              (/\ j # i
               /\ Occupies(flights'[j])
               /\ \/ flights'[j].instructor_id = flights'[i].instructor_id
                  \/ flights'[j].plane_id = flights'[i].plane_id)
              => ~Overlaps(flights'[j].start_time, flights'[j].end_time,
                           flights'[i].start_time, flights'[i].end_time)]_vars

\* a Sweep has generated flights after an earlier Sweep had: the first slot of
\* the next day holds a flight of an earlier Sweep, and the Sweep just run has
\* put a flight of the same instructor and plane in a later slot
SweepNeverDoubleBooksWitness ==
  /\ op = "tick"
  /\ \E k \in 1..GenerateCap :
       /\ alertsAdded # <<>>
       /\ alertsAdded[Len(alertsAdded)] = Alert("generated", k, 0)
       /\ \E i, j \in 1..Len(flights) :
            /\ flights[i].id > SweepSeedFlights
            /\ flights[i].id < nextId.flights - k
            /\ flights[j].id >= nextId.flights - k
            /\ flights[i].start_time = DAY + FirstHour * HOUR
            /\ Occupies(flights[i])
            /\ flights[j].start_time > flights[i].start_time
            /\ flights[j].instructor_id = flights[i].instructor_id
            /\ flights[j].plane_id = flights[i].plane_id

\* C23: a Sweep that removes r flights generates at most min(2r, 10) flights,
\* none when r = 0, and every generated flight is scheduled and starts
\* strictly after the simulated time of the Sweep
SweepGenerationCapped ==
  [][op' = "tick" =>
       /\ Cardinality(GeneratedBySweep) = nextId'.flights - nextId.flights
       /\ Cardinality(GeneratedBySweep) <= Min(GeneratePerRemoved * ret'.n, GenerateCap)
       /\ ret'.n = 0 => GeneratedBySweep = {}
       /\ \A i \in GeneratedBySweep :
            /\ flights'[i].status = "scheduled"
            /\ flights'[i].start_time > now']_vars

\* a Sweep has removed so many flights at once that twice their number is
\* over the cap, and has generated as many flights as the cap allows
SweepGenerationCappedWitness ==
  /\ op = "tick"
  /\ GeneratePerRemoved * ret.n > GenerateCap
  /\ alertsAdded # <<>>
  /\ alertsAdded[Len(alertsAdded)] = Alert("generated", GenerateCap, 0)
  /\ Cardinality({i \in 1..Len(flights) : flights[i].id > SweepSeedFlights}) = GenerateCap

\* C24: a tick advances the clock, then moves the statuses, then sweeps the
\* board, each step on the clock the tick has advanced: after a tick no flight
\* is behind the new clock in its status, and no completed flight whose end
\* the new clock puts beyond the retention window is left, those the same tick
\* has completed included
TickStepsInOrder ==
  [][op' = "tick" =>
       /\ now' = now + TickMinutes
       /\ \A i \in 1..Len(flights') :
            /\ ~(flights'[i].status = "scheduled" /\ flights'[i].start_time <= now')
            /\ ~(flights'[i].status = "in_progress" /\ flights'[i].end_time <= now')
            /\ ~IsOldCompleted(flights'[i], now')
       /\ \A i \in 1..Len(flights) :
            (/\ flights[i].status \in {"scheduled", "in_progress"}
             /\ flights[i].end_time <= now' - RetentionMinutes)
            => flights[i].id \notin FlightIds(flights')]_vars

\* a tick has brought the clock to the start of a flight, which is in progress,
\* and to the end of the retention window of another, which is gone and has
\* been replaced
TickStepsInOrderWitness ==
  /\ op = "tick"
  /\ \E i \in 1..Len(flights) :
       flights[i].start_time = now /\ flights[i].status = "in_progress"
  /\ ret.n > 0
  /\ \E k \in 1..SweepSeedFlights :
       /\ k \notin FlightIds(flights)
       /\ SeedStart(k - 1) + HOUR = now - RetentionMinutes
  /\ alertsAdded # <<>>
  /\ alertsAdded[Len(alertsAdded)].kind = "generated"

\* C25: a step of the tick that throws stops neither the clock nor the steps
\* after it: the clock advance of the tick is kept and, when the status
\* transitions throw, the sweep of the same tick still runs, so that no
\* completed flight beyond the retention window is left on the board
TickErrorsIsolatedPerStep ==
  [][op' = "tickError" =>
       /\ now' = now + TickMinutes
       /\ ret'.message = "updateFlightStatuses" =>
            \A i \in 1..Len(flights') : ~IsOldCompleted(flights'[i], now')]_vars

\* two requests that would put two flights on one instructor or on one plane
\* over overlapping intervals
RequestsClash(sa, ia, pa, sb, ib, pb) ==
  /\ ia = ib \/ pa = pb
  /\ Overlaps(sa, sa + HOUR, sb, sb + HOUR)

\* the handlers of two requests that arrive together run one after the other,
\* each from its first read of the store to its last write: the second
\* request is decided on the board the first has left
BothAccepted(a, sa, ia, pa, b, sb, ib, pb) ==
  LET first == UpdateFlightSchedule(flights, weatherEvents, now, a, sa, sa + HOUR, ia, pa)
      second == UpdateFlightSchedule(first.flights, weatherEvents, now, b, sb, sb + HOUR,
                                     ib, pb)
  IN first.ok /\ second.ok

\* C26: operations run one at a time, the checks of each on the board its
\* predecessor has written; so of two concurrent manual reschedule requests
\* for two flights that would share an instructor or a plane over overlapping
\* intervals, whichever runs first, at most one succeeds
ConcurrentReschedulesSerialized ==
  \A a, b \in FlightIds(flights) :
    \A sa, sb \in RequestStarts, ia, ib \in Instructors, pa, pb \in Planes :
      (a # b /\ RequestsClash(sa, ia, pa, sb, ib, pb))
      => ~BothAccepted(a, sa, ia, pa, b, sb, ib, pb)

\* two affected flights each of which could take the same slot, on different
\* instructors and one plane, if its request were the only one
ConcurrentReschedulesSerializedWitness ==
  \E a, b \in FlightIds(flights) :
    \E s \in RequestStarts, ia, ib \in Instructors, p \in Planes :
      /\ a # b
      /\ ia # ib
      /\ UpdateFlightSchedule(flights, weatherEvents, now, a, s, s + HOUR, ia, p).ok
      /\ UpdateFlightSchedule(flights, weatherEvents, now, b, s, s + HOUR, ib, p).ok
      /\ ~BothAccepted(a, s, ia, p, b, s, ib, p)
      /\ ~BothAccepted(b, s, ib, p, a, s, ia, p)

\* C27: the simulated clock never goes back, whatever the operation
ClockMonotonic == [][now' >= now]_vars

\* the examples of the fast-forward, as <<clock, clock after>> in minutes of
\* the day: 14:01 and 14:30 give 15:00, 10:00 gives 11:00, 23:15 gives 00:00
\* of the next day
FastForwardExamples ==
  {<<14 * HOUR + 1, 15 * HOUR>>, <<14 * HOUR + 30, 15 * HOUR>>,
   <<10 * HOUR, 11 * HOUR>>, <<23 * HOUR + 15, DAY>>}

CleanupResetsStatusesOnly ==
  [][op' = "cleanup" =>
       /\ weatherEvents' = <<>>
       /\ Len(flights') = Len(flights)
       /\ \A i \in 1..Len(flights) :
            /\ flights'[i].status = "scheduled"
            /\ flights'[i] = [flights[i] EXCEPT !.status = "scheduled"]
       /\ ResetFlights(flights') = flights'
       /\ now' = now]_vars

\* a Cleanup has brought back to scheduled a flight the clock had reached and a
\* flight whose hour, instructor and plane had been given to another
CleanupResetsStatusesOnlyWitness ==
  /\ op = "cleanup"
  /\ weatherEvents = <<>>
  /\ \E i \in 1..Len(flights) :
       flights[i].status = "scheduled" /\ flights[i].start_time <= now
  /\ \E i, j \in 1..Len(flights) :
       /\ i # j
       /\ flights[i].start_time = flights[j].start_time
       /\ flights[i].instructor_id = flights[j].instructor_id
       /\ flights[i].plane_id = flights[j].plane_id

\* the n alerts appended last, the last appended first
MostRecentlyAppended(alerts, n) ==
  LET k == Min(n, Len(alerts))
  IN [i \in 1..k |-> alerts[Len(alerts) + 1 - i]]

\* C30: the read of the alert log returns at most 50 alerts, the 50 appended
\* last, the last appended first; here for the log that holds the alerts of
\* the request just served, whatever the wall clock during the request
AlertsReadNewestFirst ==
  \A wall \in WallClocks :
    LET log == AddAlerts(alertsAdded, now, wall)
    IN /\ Len(GetAllAlerts(log)) <= AlertsLimit
       /\ GetAllAlerts(log) = MostRecentlyAppended(log, AlertsLimit)

\* some event lists the route and has started and not ended at t
UnderWeatherNow(ws, t, route) ==
  \E i \in 1..Len(ws) :
    /\ ListsRoute(ws[i], route)
    /\ ws[i].start_time <= t
    /\ t < ws[i].end_time

\* C31: the per-route read reports each of the four routes, in order, and a
\* route as unsafe exactly when some weather event lists it with
\* start_time <= now < end_time; with only future or ended events, or none,
\* the route is clear
RouteStatusExact ==
  LET routes == GetAllRoutesWithStatus(weatherEvents, now) IN
    /\ Len(routes) = 4
    /\ \A k \in 1..Len(routes) :
         /\ routes[k].route = AVAILABLE_ROUTES[k]
         /\ routes[k].status \in {"unsafe", "clear"}
         /\ routes[k].status = "unsafe"
              <=> UnderWeatherNow(weatherEvents, now, routes[k].route)

\* the read reports one route unsafe and another clear although an event
\* lists it, that event having ended or being yet to start
RouteStatusExactWitness ==
  LET routes == GetAllRoutesWithStatus(weatherEvents, now) IN
    /\ \E k \in 1..Len(routes) : routes[k].status = "unsafe"
    /\ \E k \in 1..Len(routes) :
         /\ routes[k].status = "clear"
         /\ \E i \in 1..Len(weatherEvents) :
              /\ ListsRoute(weatherEvents[i], routes[k].route)
              /\ \/ weatherEvents[i].end_time <= now
                 \/ weatherEvents[i].start_time > now

\* the alerts a step's safety check has added: all of them but, on
\* simulateWeather, the alert of the new event that precedes the check
SafetyAlerts(added, operation) ==
  IF operation = "simulateWeather" THEN Tail(added) ELSE added

\* C32: a safety check emits exactly one alert for each active weather event
\* it processes: the count of flights affected and the event's routes when it
\* matches flights, the variant message when it matches none
SafetyCheckOneAlertPerEvent ==
  [][op' \in {"safetyCheck", "simulateWeather"} =>
       LET events == ActiveWeather(weatherEvents', now')
           alerts == SafetyAlerts(alertsAdded', op')
       IN events # <<>> =>
            /\ Len(alerts) = Len(events)
            /\ \A i \in 1..Len(alerts) :
                 \/ alerts[i].kind = "none_affected"
                 \/ /\ alerts[i].kind = "affected"
                    /\ alerts[i].n > 0
                    /\ \E k \in 1..Len(events) : events[k].id = alerts[i].ref]_vars

\* C33: bulk reschedule touches cancelled flights only: a flight in any other
\* status is after the operation what it was before, and with no cancelled
\* flight on the board no flight changes and zero rescheduled is reported
BulkTouchesCancelledOnly ==
  [][op' = "rescheduleFlights" =>
       /\ Len(flights') = Len(flights)
       /\ \A i \in 1..Len(flights) :
            flights[i].status # "cancelled" => flights'[i] = flights[i]
       /\ (\A i \in 1..Len(flights) : flights[i].status # "cancelled")
            => (flights' = flights /\ ret'.n = 0)]_vars

\* a bulk reschedule has moved a cancelled flight while an affected flight was
\* on the board, which is affected still
BulkTouchesCancelledOnlyWitness ==
  /\ op = "rescheduleFlights"
  /\ ret.n > 0
  /\ \E i, j \in 1..Len(flights) :
       /\ flights[i].status = "rescheduled"
       /\ Alert("bulk_rescheduled", flights[i].id, flights[i].start_time) \in Range(alertsAdded)
       /\ flights[j].status = "affected"

\* C34: for an affected flight, on the store as the listing saw it, the manual
\* reschedule accepts every slot listed available and rejects every slot
\* listed unavailable; no listed slot starts before the clock or outside the
\* hours 8 to 17
ListingAgreesWithReschedule ==
  \A i \in 1..Len(flights) :
    flights[i].status = "affected" =>
      \A slot \in GetAvailableTimeSlots(flights, weatherEvents, now, flights[i].id) :
        /\ UpdateFlightSchedule(flights, weatherEvents, now, flights[i].id,
                                slot.start_time, slot.end_time, slot.instructor_id,
                                slot.plane_id).ok = slot.available
        /\ slot.start_time >= now
        /\ GetHours(slot.start_time) >= FirstHour
        /\ slot.end_time <= DayStart(slot.start_time) + LastHour * HOUR

\* an affected flight whose listing has a slot that is available, a slot under
\* a storm on its route, and a slot whose instructor is booked
ListingAgreesWithRescheduleWitness ==
  \E i \in 1..Len(flights) :
    /\ flights[i].status = "affected"
    /\ now > DayStart(now) + FirstHour * HOUR
    /\ \E a, w, b \in GetAvailableTimeSlots(flights, weatherEvents, now, flights[i].id) :
         /\ a.available
         /\ ~w.available
         /\ IsSlotAffectedByWeather(weatherEvents, now, flights[i].route,
                                    w.start_time, w.end_time)
         /\ ~b.available
         /\ ~IsInstructorAvailable(flights, b.instructor_id, b.start_time, b.end_time,
                                   flights[i].id)

StatusAgreesWithClock(f, t) ==
  /\ f.status = "scheduled" => f.start_time > t
  /\ f.status = "in_progress" => f.start_time <= t /\ t < f.end_time
  /\ f.status = "completed" => f.end_time <= t

\* C36: immediately after every run of the status engine at clock now, every
\* scheduled flight starts after now, every flight in progress has started and
\* not ended, and every completed flight has ended, whatever resets and manual
\* reschedules went before
EngineLeavesStatusesTrue ==
  [][op' \in {"fastForward", "tick"} =>
       \A i \in 1..Len(flights') : StatusAgreesWithClock(flights'[i], now')]_vars

\* an engine run at 09:00 has just left the 08:00 flight completed and the
\* 09:00 flight in progress
EngineLeavesStatusesTrueWitness ==
  /\ op \in {"fastForward", "tick"}
  /\ \E i, j \in 1..Len(flights) :
       /\ flights[i].status = "completed"
       /\ flights[j].status = "in_progress"


\* flight f is scheduled or in progress under the active event w on its route
FliesUnderWeather(f, w, t) ==
  /\ f.status \in {"scheduled", "in_progress"}
  /\ w.end_time > t
  /\ ListsRoute(w, f.route)
  /\ f.start_time < w.end_time
  /\ f.end_time > w.start_time

RescheduleNeverIntoPast ==
  [][op' = "reschedule" /\ ret'.ok =>
       \A i \in 1..Len(flights) :
         (flights[i].status = "affected" /\ flights'[i].status = "scheduled")
           => flights'[i].start_time >= now]_vars


\* C39: every flight in the store, the flights generated by board maintenance
\* included, has a route of the four-route set from which simulateWeather draws
\* the affected routes
EveryRouteInTheWeatherSet ==
  \A i \in 1..Len(flights) : flights[i].route \in Range(AVAILABLE_ROUTES)


\* 08:00 of the day after the clock's, the first slot the generator tries
GenerateBase(t) == ((t \div DAY) + 1) * DAY + FirstHour * HOUR

\* the limits of one call of the generator on the board fs at the clock t
GenerateWithinLimits(count, picks, fs, t, id) ==
  LET g == GenerateNewScheduledFlights(count, picks, fs, t, id) IN
    /\ g.attempts <= count * AttemptsPerFlight
    /\ g.dayOffset <= MaxDaysAhead + 1
    /\ g.generated \in 0..count
    /\ Len(g.flights) = Len(fs) + g.generated
    /\ \A i \in 1..Len(g.flights) :
         i > Len(fs) =>
           /\ g.flights[i].start_time >= GenerateBase(t)
           /\ g.flights[i].start_time < GenerateBase(t) + (MaxDaysAhead + 1) * DAY

\* C40: generateNewScheduledFlights(count) ends on every board and for every
\* count: its loop makes at most count * 100 attempts, tries no slot beyond day
\* 14 counted from the first day it tries, and returns a number of generated
\* flights between 0 and count
GenerateTerminatesWithinLimits ==
  \A count \in 0..MaxCount :
    \A picks \in [1..count -> DrawsFollowed] :
      GenerateWithinLimits(count, picks, flights, now, nextId.flights)

\* a call that gave up at the limit of attempts with nothing generated, and a
\* call on the same board that gave up past the last day with fewer attempts
\* than its limit
GenerateTerminatesWithinLimitsWitness ==
  /\ op = "generate"
  /\ ret.n = 0
  /\ LET one == GenerateNewScheduledFlights(1, [k \in 1..1 |-> CHOOSE d \in DrawsFollowed : TRUE],
                                            flights, now, nextId.flights)
         three == GenerateNewScheduledFlights(MaxCount,
                                              [k \in 1..MaxCount |-> CHOOSE d \in DrawsFollowed : TRUE],
                                              flights, now, nextId.flights)
     IN /\ one.attempts = AttemptsPerFlight /\ one.generated = 0
        /\ three.dayOffset > MaxDaysAhead /\ three.attempts < MaxCount * AttemptsPerFlight
        /\ three.generated = 0

====
